---- MODULE Spec2Model ----
(***************************************************************************)
(* Model of the PDF analysis-and-extraction pipeline of                    *)
(* quizy_parser_service: parse_pdf (app/parsers/pdf/__init__.py), the      *)
(* strategy dispatcher and the five extraction strategies                  *)
(* (app/parsers/pdf/extractor.py), the OCR stage                           *)
(* (app/parsers/pdf/ocr_processor.py) and the strategy selector            *)
(* (app/parsers/pdf/analyzer.py).                                          *)
(*                                                                         *)
(* Text is a sequence of one-character strings; "pi" stands for the glyph  *)
(* U+03C0, one of the math indicators of _has_math_content.                *)
(***************************************************************************)
EXTENDS Integers, Sequences, FiniteSets, TLC

(***************************************************************************)
(* Bounds of the model.                                                    *)
(***************************************************************************)
\* longest document parsed under every combination of options
MaxPages == 2
\* longest document at all
MaxOcrPages == 6
\* largest max_pages option a request carries
MaxCap == 2

(***************************************************************************)
(* Python string primitives.                                               *)
(***************************************************************************)
Whitespace == {" ", "\n"}

Min(a, b) == IF a <= b THEN a ELSE b

\* one word per non-whitespace character
WordCountOneRunPerChar(text) ==
    Cardinality({i \in 1..Len(text) : text[i] \notin Whitespace})

\* len(text.split()): the number of maximal runs of non-whitespace characters
WordCount(text) ==
    Cardinality({i \in 1..Len(text) :
                    /\ text[i] \notin Whitespace
                    /\ (i = 1 \/ text[i - 1] \in Whitespace)})

\* text.strip(): drop leading and trailing whitespace
Strip(text) ==
    LET keep == {i \in 1..Len(text) : text[i] \notin Whitespace}
    IN  IF keep = {} THEN <<>>
        ELSE SubSeq(text,
                    CHOOSE i \in keep : \A j \in keep : i <= j,
                    CHOOSE i \in keep : \A j \in keep : j <= i)

RECURSIVE JoinWith(_, _)
\* sep.join(parts)
JoinWith(sep, parts) ==
    IF parts = <<>> THEN <<>>
    ELSE IF Len(parts) = 1 THEN parts[1]
    ELSE parts[1] \o sep \o JoinWith(sep, Tail(parts))

JoinSingleNewline(parts) == JoinWith(<<"\n">>, parts)

\* "\n\n".join(full_text)
JoinFullText(parts) == JoinWith(<<"\n", "\n">>, parts)

\* options.get(key, default)
Get(d, key, default) == IF key \in DOMAIN d THEN d[key] ELSE default

(***************************************************************************)
(* Inputs: documents and request options.                                  *)
(* A page of the input file: `text` is what PyMuPDF's get_text() returns,  *)
(* `plumb` what pdfplumber's extract_text() returns, `img` the text an OCR *)
(* provider reads off the rendered page, width/height the page rectangle,  *)
(* `eqs` the number of equations extract_equations_from_page finds,        *)
(* `tables` the number of tables pdfplumber's extract_tables() finds.      *)
(***************************************************************************)
KText == [text |-> <<"a", " ", "b", "\n">>, plumb |-> <<"a", " ", "b">>,
          img |-> <<"b">>, width |-> 100, height |-> 100, eqs |-> 0, tables |-> 1]
KScan == [text |-> <<>>, plumb |-> <<>>,
          img |-> <<"c", " ", "d", "\n">>, width |-> 100, height |-> 100, eqs |-> 0,
          tables |-> 0]
KMath == [text |-> <<"pi", "=", "e", "\n">>, plumb |-> <<"pi", "=", "e">>,
          img |-> <<"e">>, width |-> 10, height |-> 10, eqs |-> 1, tables |-> 0]

Kinds == <<KText, KScan, KMath>>

PageKinds == {Kinds[i] : i \in 1..Len(Kinds)}

\* the documents: the three kinds of page in rotation, starting at any of them
Rotation(n, s) == [k \in 1..n |-> Kinds[((k - 1 + s) % Len(Kinds)) + 1]]

\* documents of at most MaxPages pages are parsed under every combination of options
SmallDocs == {Rotation(n, s) : n \in 0..MaxPages, s \in 0..(Len(Kinds) - 1)}

\* longer documents (long enough for a second OCR batch) under plain options
LongDocs ==
    {Rotation(n, s) : n \in (MaxPages + 1)..MaxOcrPages, s \in 0..(Len(Kinds) - 1)}

StrategyNames == {"text_focus", "ocr_heavy", "hybrid", "table_focus", "math_focus"}

\* an option is absent (<<>>) or present with a value (<<v>>)
Opt(key, v) == IF v = <<>> THEN <<>> ELSE (key :> v[1])

MkOptions(mp, fs, oe, ei, et) ==
    Opt("max_pages", mp) @@ Opt("force_strategy", fs) @@ Opt("ocr_enabled", oe)
        @@ Opt("extract_images", ei) @@ Opt("extract_tables", et)

ForceValues == {<<>>} \cup {<<s>> : s \in StrategyNames \cup {"bogus"}}

AllOptions ==
    {MkOptions(mp, fs, oe, ei, et) :
        mp \in {<<>>} \cup {<<m>> : m \in 1..MaxCap},
        fs \in ForceValues,
        oe \in {<<>>, <<TRUE>>},
        ei \in {<<>>, <<TRUE>>},
        et \in {<<>>, <<FALSE>>}}

\* the requests made on the long documents: the whole file or a prefix of it,
\* under the strategy the analysis recommends
PlainOptions ==
    {MkOptions(mp, <<>>, <<>>, <<>>, <<>>) :
        mp \in {<<>>} \cup {<<m>> : m \in 1..MaxCap}}

(***************************************************************************)
(* Strategy selector (analyzer.py).  Densities are carried in hundredths.  *)
(***************************************************************************)
\* the selector with the table rule ahead of the equation rule
determine_strategy_tables_first(is_scanned, text_density, image_density, table_density, has_equations) ==
    IF is_scanned THEN "ocr_heavy"
    ELSE IF table_density > 30 THEN "table_focus"
    ELSE IF has_equations THEN "math_focus"
    ELSE IF image_density > 50 /\ text_density < 50 THEN "hybrid"
    ELSE IF text_density > 70 THEN "text_focus"
    ELSE "hybrid"

\* _determine_strategy: the first matching rule
determine_strategy(is_scanned, text_density, image_density, table_density, has_equations) ==
    IF is_scanned THEN "ocr_heavy"
    ELSE IF has_equations THEN "math_focus"
    ELSE IF table_density > 30 THEN "table_focus"
    ELSE IF image_density > 50 /\ text_density < 50 THEN "hybrid"
    ELSE IF text_density > 70 THEN "text_focus"
    ELSE "hybrid"

\* the densities the analysis of a request is drawn from (hundredths)
Densities == {0, 40, 80}

\* the fingerprint analyze_pdf returns when the document cannot be opened
FailureCharacteristics ==
    [total_pages |-> 0, is_scanned |-> FALSE, has_equations |-> FALSE,
     recommended_strategy |-> "text_focus"]

\* parse_pdf: strategy = options.get("force_strategy", recommended_strategy)
select_strategy_ignoring_force(opts, chars) == chars.recommended_strategy

select_strategy(opts, chars) ==
    Get(opts, "force_strategy", chars.recommended_strategy)

\* extract_with_strategy: strategies.get(strategy, extract_text_focused)
Strategies ==
    [text_focus |-> "extract_text_focused", ocr_heavy |-> "extract_ocr_heavy",
     hybrid |-> "extract_hybrid", table_focus |-> "extract_table_focused",
     math_focus |-> "extract_math_focused"]

dispatch_unknown_to_hybrid(strategy) ==
    IF strategy \in DOMAIN Strategies THEN Strategies[strategy] ELSE "extract_hybrid"

dispatch(strategy) ==
    IF strategy \in DOMAIN Strategies THEN Strategies[strategy]
    ELSE "extract_text_focused"

(***************************************************************************)
(* OCR provider chain (ocr_processor.py, _process_image_ocr).              *)
(* env.vision_client / env.pytesseract: what _get_vision_client() and      *)
(* _get_pytesseract() return (a client / module, or None);                 *)
(* env.vision / env.tess: how the provider call ends on this image.        *)
(***************************************************************************)
CallOutcomes == {"raise", "empty", "text"}

OcrEnvs ==
    [vision_client : BOOLEAN, vision : CallOutcomes,
     pytesseract : BOOLEAN, tess : CallOutcomes]

\* _vision_ocr: the annotation text as returned, or "" without annotations
vision_ocr(img, env) == IF env.vision = "text" THEN img ELSE <<>>

\* _tesseract_ocr: image_to_string(...).strip()
tesseract_ocr(img, env) == IF env.tess = "text" THEN Strip(img) ELSE <<>>

\* the chain without the except clause around the cloud call
process_image_ocr_vision_unguarded(img, env) ==
    LET v_called == env.vision_client
        v_text == IF v_called /\ env.vision # "raise" THEN vision_ocr(img, env) ELSE <<>>
        t_called == env.pytesseract /\ v_text = <<>> /\ ~(v_called /\ env.vision = "raise")
        t_text == IF t_called /\ env.tess # "raise" THEN tesseract_ocr(img, env) ELSE <<>>
    IN  [calls |-> (IF v_called THEN <<"cloud_vision">> ELSE <<>>)
                   \o (IF t_called THEN <<"tesseract">> ELSE <<>>),
         raised |-> v_called /\ env.vision = "raise",
         text |-> IF v_text # <<>> THEN v_text ELSE t_text]

process_image_ocr(img, env) ==
    LET v_called == env.vision_client
        v_text == IF v_called /\ env.vision # "raise" THEN vision_ocr(img, env) ELSE <<>>
        t_called == env.pytesseract /\ v_text = <<>>
        t_text == IF t_called /\ env.tess # "raise" THEN tesseract_ocr(img, env) ELSE <<>>
    IN  [calls |-> (IF v_called THEN <<"cloud_vision">> ELSE <<>>)
                   \o (IF t_called THEN <<"tesseract">> ELSE <<>>),
         raised |-> FALSE,
         text |-> IF v_text # <<>> THEN v_text ELSE t_text]

\* what one call of _process_image_ocr on img can return, over every way the
\* providers can behave, and whether some behaviour makes it raise
ocr_texts(img) ==
    {process_image_ocr(img, env).text :
        env \in {e \in OcrEnvs : ~process_image_ocr(img, e).raised}}

ocr_can_raise(img) == \E env \in OcrEnvs : process_image_ocr(img, env).raised

(***************************************************************************)
(* Page records and accumulation (extractor.py).                           *)
(***************************************************************************)
\* the glyphs of math_indicators the documents use
MathIndicators == {"pi"}

\* _has_math_content (extractor.py)
has_math_content(text) == \E i \in 1..Len(text) : text[i] \in MathIndicators

page_number_zero_based(page_num) == page_num

\* "pageNumber": page_num + 1, for the 0-based index of the loops
page_number_of(page_num) == page_num + 1

page_data(page_number, text, tables, equations) ==
    [pageNumber |-> page_number, content |-> text, wordCount |-> WordCount(text),
     tables |-> tables, equations |-> equations]

Acc0 == [pages |-> <<>>, full_text |-> <<>>, total_word_count |-> 0]

\* pages.append(page_data); full_text.append(text); total_word_count += word_count
append_page(a, pd, text) ==
    [pages |-> Append(a.pages, pd), full_text |-> Append(a.full_text, text),
     total_word_count |-> a.total_word_count + WordCount(text)]

extraction_result(a, method) ==
    [pages |-> a.pages, fullText |-> JoinFullText(a.full_text),
     totalWordCount |-> a.total_word_count, extractionMethod |-> method]

NoResult ==
    [pages |-> <<>>, fullText |-> <<>>, totalWordCount |-> 0,
     extractionMethod |-> "none"]

\* min(options.get("max_pages", page_count), page_count)
capped_page_count(opts, n) == Min(Get(opts, "max_pages", n), n)

RECURSIVE text_focused_pages(_, _, _, _)
\* extract_text_focused._sync_extract: the loop over range(max_pages)
text_focused_pages(d, opts, i, a) ==
    IF i >= capped_page_count(opts, Len(d)) THEN a
    ELSE LET page == d[i + 1]
             text == page.plumb
             tables == IF Get(opts, "extract_tables", TRUE) THEN page.tables ELSE 0
         IN  text_focused_pages(d, opts, i + 1,
                 append_page(a, page_data(page_number_of(i), text, tables, <<>>), text))

\* extract_tables_from_pdf: one entry per table, over every page of the file
RECURSIVE tables_from_pdf(_, _)
tables_from_pdf(d, page_num) ==
    IF page_num > Len(d) THEN <<>>
    ELSE [j \in 1..d[page_num].tables |-> [page_number |-> page_num]]
            \o tables_from_pdf(d, page_num + 1)

count_with_page_number(items, page_number) ==
    Cardinality({j \in 1..Len(items) : items[j].page_number = page_number})

RECURSIVE table_focused_pages(_, _, _, _)
\* extract_table_focused._sync_extract_text: the loop over enumerate(pdf.pages)
table_focused_pages(d, tbls, i, a) ==
    IF i >= Len(d) THEN a
    ELSE LET text == d[i + 1].plumb
         IN  table_focused_pages(d, tbls, i + 1,
                 append_page(a,
                     page_data(page_number_of(i), text,
                               count_with_page_number(tbls, i + 1), <<>>),
                     text))

RECURSIVE math_focused_pages(_, _, _)
\* extract_math_focused._sync_extract_text: the loop over range(doc.page_count)
math_focused_pages(d, i, a) ==
    IF i >= Len(d) THEN a
    ELSE LET text == d[i + 1].text
         IN  math_focused_pages(d, i + 1,
                 append_page(a, page_data(page_number_of(i), text, 0, <<>>), text))

\* extract_equations_from_page(page, page_num)
equations_from_page(page, page_num) ==
    [j \in 1..page.eqs |-> [page_number |-> page_num, id |-> j - 1]]

RECURSIVE math_from_pdf(_, _, _)
\* extract_math_from_pdf: the equations of the first max_pages pages
math_from_pdf(d, opts, page_num) ==
    IF page_num >= capped_page_count(opts, Len(d)) THEN <<>>
    ELSE equations_from_page(d[page_num + 1], page_num + 1)
            \o math_from_pdf(d, opts, page_num + 1)

SelectSeq2(items, page_number) ==
    LET Test(eq) == eq.page_number = page_number IN SelectSeq(items, Test)

\* the equations are matched against the 0-based index of the page
merge_equations_zero_based(pgs, eqs) ==
    [k \in 1..Len(pgs) |->
        [pgs[k] EXCEPT !.equations = SelectSeq2(eqs, pgs[k].pageNumber - 1)]]

\* extract_math_focused: merge equations into pages
merge_equations(pgs, eqs) ==
    [k \in 1..Len(pgs) |->
        [pgs[k] EXCEPT !.equations = SelectSeq2(eqs, pgs[k].pageNumber)]]

\* extract_hybrid._sync_extract_text: text_density < 0.01 and ocr_enabled
needs_ocr(page, opts) ==
    /\ (IF page.width > 0
        THEN 100 * Len(Strip(page.text)) < page.width * page.height
        ELSE TRUE)
    /\ Get(opts, "ocr_enabled", FALSE)

hybrid_pages_data(d, opts) ==
    [k \in 1..capped_page_count(opts, Len(d)) |->
        [page_num |-> k - 1, text |-> d[k].text, needs_ocr |-> needs_ocr(d[k], opts)]]

\* extract_hybrid: text = f"{text}\n{ocr_text}".strip() when ocr_text is not empty
hybrid_text(text, ocr_text) ==
    IF ocr_text # <<>> THEN Strip(text \o <<"\n">> \o ocr_text) ELSE text

(***************************************************************************)
(* OCR stage helpers (ocr_processor.py).                                   *)
(***************************************************************************)
\* for i in range(0, len(tasks), 5): batch = tasks[i:i+5]
BatchSize == 5

\* extract_equations_from_page(page, page_num): its positional parameters
EquationsFromPageParams == 2

\* extract_hybrid._extract_eqs: extract_equations_from_page(p, pn, opts)
HybridEquationCallArgs == 3

batch_of(tsks, i) == {k \in 1..Len(tsks) : i < k /\ k <= i + BatchSize}

\* await asyncio.gather(*batch): every coroutine of the batch becomes a running task
start_batch(tsks, i) ==
    [k \in 1..Len(tsks) |->
        IF k \in batch_of(tsks, i) THEN [tsks[k] EXCEPT !.state = "running"] ELSE tsks[k]]

new_tasks(n) == [k \in 1..n |-> [state |-> "pending", text |-> <<>>]]

running(tsks) == {k \in 1..Len(tsks) : tsks[k].state = "running"}

\* batch_results, in the order of the awaitables passed to gather
batch_results(tsks, i) ==
    [j \in 1..Cardinality(batch_of(tsks, i)) |->
        page_data(page_number_of(i + j - 1), tsks[i + j].text, 0, <<>>)]

RECURSIVE ocr_response(_, _)
\* "Build response": the loop over results
ocr_response(res, a) ==
    IF res = <<>> THEN a
    ELSE ocr_response(Tail(res),
            [pages |-> Append(a.pages, Head(res)),
             full_text |-> Append(a.full_text, Head(res).content),
             total_word_count |-> a.total_word_count + Head(res).wordCount])

(***************************************************************************)
(* Whole-document cache (utils/cache.py).  A cache maps a key to the        *)
(* reference of the stored object and its expiry time.                     *)
(***************************************************************************)
\* MAX_CACHE_SIZE
MaxCacheSize == 100

\* set_in_cache(cache_key, parsed_document, ttl=1800) in parse_pdf
CacheTtl == 1800

\* the option names in the order sort_keys=True gives them
SortedOptionKeys ==
    <<"document_type", "extract_images", "extract_tables", "force_strategy", "language",
      "max_pages", "ocr_enabled", "subject", "title">>

\* json.dumps(options, sort_keys=True): the items in key order, values as text
options_json(opts) ==
    LET Present(k) == k \in DOMAIN opts
        ks == SelectSeq(SortedOptionKeys, Present)
    IN  [i \in 1..Len(ks) |-> <<ks[i], ToString(opts[ks[i]])>>]

\* get_cache_key: the digest of f"{file_id}:{options_str}", one per distinct string
get_cache_key(file_id, opts) == <<file_id, options_json(opts)>>

\* get_from_cache: the entry under key when it exists and has not expired
cache_hit(c, key, now) == key \in DOMAIN c /\ now < c[key].expiry

\* an expired entry under key is left in the cache
cache_after_get_keeping_expired(c, key, now) == c

\* get_from_cache: an expired entry under key is deleted
cache_after_get(c, key, now) ==
    IF key \in DOMAIN c /\ ~(now < c[key].expiry)
    THEN [k \in DOMAIN c \ {key} |-> c[k]]
    ELSE c

\* _evict_oldest: remove the entry with the earliest expiry
evict_oldest(c) ==
    IF DOMAIN c = {} THEN c
    ELSE LET oldest_key == CHOOSE k \in DOMAIN c :
                               \A j \in DOMAIN c : c[k].expiry <= c[j].expiry
         IN  [k \in DOMAIN c \ {oldest_key} |-> c[k]]

\* the entry is stored without looking at the size of the cache
set_in_cache_without_eviction(c, key, ref, now, ttl) ==
    [k \in DOMAIN c \cup {key} |->
        IF k = key THEN [ref |-> ref, expiry |-> now + ttl] ELSE c[k]]

\* set_in_cache(key, value, ttl)
set_in_cache(c, key, ref, now, ttl) ==
    LET room == IF Cardinality(DOMAIN c) >= MaxCacheSize THEN evict_oldest(c) ELSE c
    IN  [k \in DOMAIN room \cup {key} |->
            IF k = key THEN [ref |-> ref, expiry |-> now + ttl] ELSE room[k]]

\* the path parse_pdf is called with in the pipeline
FilePath == "/tmp/parser_temp/a.pdf"

(***************************************************************************)
(* State.                                                                  *)
(***************************************************************************)
VARIABLES
    doc,              \* the pages of the file at file_path
    options,          \* the options dict of the request
    pc,               \* where parse_pdf stands
    characteristics,  \* the PDFCharacteristics analyze_pdf returned
    strategy,         \* the name passed to extract_with_strategy
    extractor,        \* the extractor function it picked
    acc,              \* pages, full_text, total_word_count of the running extractor
    pages_data,       \* extract_hybrid: result of the first pass
    idx,              \* extract_hybrid: position of the loop over pages_data
    handle_open,      \* extract_hybrid: the fitz document is open
    tables,           \* extract_table_focused: result of extract_tables_from_pdf
    eq_task,          \* extract_math_focused: state of equations_task
    text_task,        \* extract_math_focused: state of the text task
    equations,        \* extract_math_focused: result of equations_task
    ocr_path,         \* process_pdf_with_ocr: render path in use
    tasks,            \* page-OCR tasks of the current render path
    results,          \* results collected from finished batches
    batch_start,      \* the loop variable i of the batch loop
    orphans,          \* tasks of a gather that raised, still running
    result,           \* what extract_with_strategy returned
    document,         \* what parse_pdf returned
    error,            \* the exception parse_pdf raised
    probe,            \* input and output of a function applied on its own
    cache,            \* _cache of utils/cache.py
    heap,             \* the document objects built so far, by reference
    clock,            \* time.time()
    calls             \* the parse_pdf calls that returned, with what they returned

vars == <<doc, options, pc, characteristics, strategy, extractor, acc, pages_data,
          idx, handle_open, tables, eq_task, text_task, equations, ocr_path, tasks,
          results, batch_start, orphans, result, document, error, probe, cache, heap,
          clock, calls>>

reqVars == <<doc, options, probe>>
hybridVars == <<pages_data, idx, handle_open>>
mathVars == <<eq_task, text_task, equations>>
ocrVars == <<ocr_path, tasks, results, batch_start>>
selVars == <<characteristics, strategy, extractor>>
cacheVars == <<cache, heap, clock, calls>>

NoDocument ==
    [pages |-> <<>>, fullText |-> <<>>, totalWordCount |-> 0, totalPages |-> 0,
     extractionMethod |-> "none", warnings |-> <<>>]

NoProbe == [fn |-> "none"]

InitPipeline ==
    /\ pc = "analyze"
    /\ characteristics = FailureCharacteristics
    /\ strategy = "none"
    /\ extractor = "none"
    /\ acc = Acc0
    /\ pages_data = <<>>
    /\ idx = 0
    /\ handle_open = FALSE
    /\ tables = <<>>
    /\ eq_task = "idle"
    /\ text_task = "idle"
    /\ equations = <<>>
    /\ ocr_path = "none"
    /\ tasks = <<>>
    /\ results = <<>>
    /\ batch_start = 0
    /\ orphans = 0
    /\ result = NoResult
    /\ document = NoDocument
    /\ error = "none"
    /\ cache = <<>>
    /\ heap = <<>>
    /\ clock = 0
    /\ calls = <<>>

Init ==
    /\ \/ doc \in SmallDocs /\ options \in AllOptions
       \/ doc \in LongDocs /\ options \in PlainOptions
    /\ probe = NoProbe
    /\ InitPipeline

\* parse_pdf: except Exception as e: raise ValueError(...) from e
Raise(e) ==
    /\ pc' = "failed"
    /\ error' = e

(***************************************************************************)
(* parse_pdf: analysis and dispatch.                                       *)
(***************************************************************************)
\* the fingerprints analyze_pdf can return for a file of n pages
analyses(n) ==
    {FailureCharacteristics}
    \cup {[total_pages |-> n, is_scanned |-> s, has_equations |-> e,
           recommended_strategy |-> determine_strategy(s, td, imd, tbd, e)] :
            s \in BOOLEAN, e \in BOOLEAN, td \in Densities, imd \in Densities,
            tbd \in Densities}

\* parse_pdf up to the first await: characteristics = analyze_pdf(file_path);
\* strategy = options.get(...); extract_with_strategy picks the extractor
analyze_and_dispatch ==
    /\ pc = "analyze"
    /\ \/ \* _calculate_file_hash cannot read the file: outside the try block
          /\ Raise("file_unreadable")
          /\ UNCHANGED selVars
       \/ \E chars \in analyses(Len(doc)) :
          /\ characteristics' = chars
          /\ strategy' = select_strategy(options, chars)
          /\ extractor' = dispatch(strategy')
          /\ pc' = extractor'
          /\ UNCHANGED error
    /\ UNCHANGED <<cacheVars, reqVars, acc, hybridVars, tables, mathVars, ocrVars, orphans, result,
                   document>>

(***************************************************************************)
(* text_focus                                                              *)
(***************************************************************************)
extract_text_focused ==
    /\ pc = "extract_text_focused"
    /\ \/ /\ Raise("pdfplumber_open")
          /\ UNCHANGED <<acc, result>>
       \/ \* page.extract_tables() raises on some page
          /\ Get(options, "extract_tables", TRUE)
          /\ capped_page_count(options, Len(doc)) > 0
          /\ Raise("page_tables")
          /\ UNCHANGED <<acc, result>>
       \/ /\ acc' = text_focused_pages(doc, options, 0, Acc0)
          /\ result' = extraction_result(acc', "text_focused")
          /\ pc' = "build"
          /\ UNCHANGED error
    /\ UNCHANGED <<cacheVars, reqVars, selVars, hybridVars, tables, mathVars, ocrVars, orphans,
                   document>>

(***************************************************************************)
(* hybrid                                                                  *)
(***************************************************************************)
hybrid_sync_extract_text ==
    /\ pc = "extract_hybrid"
    /\ \/ /\ Raise("fitz_open")
          /\ UNCHANGED <<pages_data, idx, handle_open, acc>>
       \/ /\ pages_data' = hybrid_pages_data(doc, options)
          /\ handle_open' = TRUE
          /\ idx' = 1
          /\ acc' = Acc0
          /\ pc' = "hybrid_loop"
          /\ UNCHANGED error
    /\ UNCHANGED <<cacheVars, reqVars, selVars, tables, mathVars, ocrVars, orphans, result, document>>

\* the texts one pass of the OCR step can leave in `text`
hybrid_ocr_texts(pd) ==
    IF pd.needs_ocr
    THEN {hybrid_text(pd.text, ocr_text) : ocr_text \in ocr_texts(doc[pd.page_num + 1].img)}
    ELSE {pd.text}

\* one iteration of "for pd in pages_data"
hybrid_page ==
    /\ pc = "hybrid_loop"
    /\ idx <= Len(pages_data)
    /\ LET pd == pages_data[idx] IN
       \/ \* process_page_with_ocr: get_pixmap raises, or the provider chain does
          /\ pd.needs_ocr
          /\ Raise("page_ocr")
          /\ UNCHANGED <<acc, idx>>
       \/ \E text \in hybrid_ocr_texts(pd) :
          \/ \* _extract_page_images: page.get_images() raises
             /\ Get(options, "extract_images", FALSE)
             /\ Raise("page_images")
             /\ UNCHANGED <<acc, idx>>
          \/ \* _extract_eqs passes three arguments to a two-parameter function
             /\ has_math_content(text)
             /\ HybridEquationCallArgs # EquationsFromPageParams
             /\ Raise("page_equations")
             /\ UNCHANGED <<acc, idx>>
          \/ /\ has_math_content(text) => HybridEquationCallArgs = EquationsFromPageParams
             /\ acc' = append_page(acc,
                           page_data(page_number_of(pd.page_num), text, 0,
                                     IF has_math_content(text)
                                     THEN equations_from_page(doc[pd.page_num + 1],
                                                              pd.page_num + 1)
                                     ELSE <<>>),
                           text)
             /\ idx' = idx + 1
             /\ UNCHANGED <<pc, error>>
    /\ UNCHANGED <<cacheVars, reqVars, selVars, pages_data, handle_open, tables, mathVars, ocrVars,
                   orphans, result, document>>

\* doc.close() and return
hybrid_return ==
    /\ pc = "hybrid_loop"
    /\ idx > Len(pages_data)
    /\ handle_open' = FALSE
    /\ result' = extraction_result(acc, "hybrid")
    /\ pc' = "build"
    /\ UNCHANGED <<cacheVars, reqVars, selVars, acc, pages_data, idx, tables, mathVars, ocrVars,
                   orphans, document, error>>

(***************************************************************************)
(* table_focus                                                             *)
(***************************************************************************)
table_extract_tables ==
    /\ pc = "extract_table_focused"
    /\ \/ /\ Raise("pdfplumber_open")
          /\ UNCHANGED tables
       \/ /\ Len(doc) > 0
          /\ Raise("page_tables")
          /\ UNCHANGED tables
       \/ /\ tables' = tables_from_pdf(doc, 1)
          /\ pc' = "table_text"
          /\ UNCHANGED error
    /\ UNCHANGED <<cacheVars, reqVars, selVars, acc, hybridVars, mathVars, ocrVars, orphans, result,
                   document>>

table_sync_extract_text ==
    /\ pc = "table_text"
    /\ \/ /\ Raise("pdfplumber_open")
          /\ UNCHANGED <<acc, result>>
       \/ /\ acc' = table_focused_pages(doc, tables, 0, Acc0)
          /\ result' = extraction_result(acc', "table_focused")
          /\ pc' = "build"
          /\ UNCHANGED error
    /\ UNCHANGED <<cacheVars, reqVars, selVars, hybridVars, tables, mathVars, ocrVars, orphans,
                   document>>

(***************************************************************************)
(* math_focus                                                              *)
(***************************************************************************)
\* equations_task is submitted, then gather submits the text task
math_start ==
    /\ pc = "extract_math_focused"
    /\ eq_task' = "running"
    /\ text_task' = "running"
    /\ pc' = "math_gather"
    /\ UNCHANGED <<cacheVars, reqVars, selVars, acc, hybridVars, tables, equations, ocrVars, orphans,
                   result, document, error>>

\* extract_math_from_pdf returns: every failure is caught inside it, and the
\* equations of the k pages read before it are returned
math_equations_done ==
    /\ eq_task = "running"
    /\ eq_task' = "done"
    /\ \E k \in 0..Len(doc) : equations' = math_from_pdf(SubSeq(doc, 1, k), options, 0)
    /\ UNCHANGED <<cacheVars, reqVars, pc, selVars, acc, hybridVars, tables, text_task, ocrVars,
                   orphans, result, document, error>>

math_text_done ==
    /\ text_task = "running"
    /\ \/ \* fitz.open raises: gather raises at once
          /\ text_task' = "failed"
          /\ Raise("fitz_open")
          /\ UNCHANGED acc
       \/ /\ text_task' = "done"
          /\ acc' = math_focused_pages(doc, 0, Acc0)
          /\ UNCHANGED <<pc, error>>
    /\ UNCHANGED <<cacheVars, reqVars, selVars, hybridVars, tables, eq_task, equations, ocrVars,
                   orphans, result, document>>

\* gather returned: merge equations into pages and return
math_merge ==
    /\ pc = "math_gather"
    /\ eq_task = "done"
    /\ text_task = "done"
    /\ acc' = [acc EXCEPT !.pages = merge_equations(acc.pages, equations)]
    /\ result' = extraction_result(acc', "math_focused")
    /\ pc' = "build"
    /\ UNCHANGED <<cacheVars, reqVars, selVars, hybridVars, tables, mathVars, ocrVars, orphans,
                   document, error>>

(***************************************************************************)
(* ocr_heavy: process_pdf_with_ocr and _process_with_fitz                  *)
(***************************************************************************)
in_flight == Cardinality(running(tasks)) + orphans

\* the tasks of the first batch are running, or the response is built at once
ocr_begin_batches(path, n) ==
    /\ ocr_path' = path
    /\ tasks' = start_batch(new_tasks(n), 0)
    /\ results' = <<>>
    /\ batch_start' = 0
    /\ IF n = 0
       THEN /\ acc' = Acc0
            /\ result' = extraction_result(Acc0, "ocr")
            /\ pc' = "build"
       ELSE /\ pc' = "ocr_gather"
            /\ UNCHANGED <<acc, result>>

extract_ocr_heavy ==
    /\ pc = "extract_ocr_heavy"
    /\ \/ \* ensure_tmp_space(100) is false
          /\ Raise("tmp_space")
          /\ UNCHANGED ocr_path
       \/ \* _get_pdf2image() returns convert_from_path
          /\ pc' = "convert"
          /\ ocr_path' = "pdf2image"
          /\ UNCHANGED error
       \/ \* _get_pdf2image() returns None
          /\ pc' = "fitz_extract"
          /\ ocr_path' = "fitz"
          /\ UNCHANGED error
    /\ UNCHANGED <<cacheVars, reqVars, selVars, acc, hybridVars, tables, mathVars, tasks, results,
                   batch_start, orphans, result, document>>

\* images = await run_in_executor(_convert_pdf), then the first gather
convert_pdf_done ==
    /\ pc = "convert"
    /\ \/ \* conversion raises: except -> _process_with_fitz
          /\ pc' = "fitz_extract"
          /\ ocr_path' = "fitz"
          /\ UNCHANGED <<tasks, results, batch_start, acc, result>>
       \/ ocr_begin_batches("pdf2image", capped_page_count(options, Len(doc)))
    /\ UNCHANGED <<cacheVars, reqVars, selVars, hybridVars, tables, mathVars, orphans, document,
                   error>>

\* page_images = await run_in_executor(_extract_pages), then the first gather
fitz_extract_pages_done ==
    /\ pc = "fitz_extract"
    /\ \/ /\ Raise("fitz_open")
          /\ UNCHANGED <<ocrVars, acc, result>>
       \/ /\ ocr_begin_batches("fitz", capped_page_count(options, Len(doc)))
          /\ UNCHANGED error
    /\ UNCHANGED <<cacheVars, reqVars, selVars, hybridVars, tables, mathVars, orphans, document>>

\* a task of the awaited gather raises: gather raises at once and leaves the
\* other tasks of the batch running
page_task_raises(k) ==
    /\ orphans' = orphans + Cardinality(running(tasks) \ {k})
    /\ tasks' = <<>>
    /\ results' = <<>>
    /\ batch_start' = 0
    /\ IF ocr_path = "pdf2image"
       THEN \* except Exception: return await _process_with_fitz(...)
            /\ ocr_path' = "fitz"
            /\ pc' = "fitz_extract"
            /\ UNCHANGED error
       ELSE /\ Raise("page_ocr")
            /\ UNCHANGED ocr_path

\* _process_page_image / _process_page_data of page k ends
page_task_done(k) ==
    /\ pc = "ocr_gather"
    /\ k \in running(tasks)
    /\ \/ \* _img_to_bytes: img.save raises
          /\ ocr_path = "pdf2image"
          /\ page_task_raises(k)
       \/ \* _process_image_ocr raises
          /\ ocr_can_raise(doc[k].img)
          /\ page_task_raises(k)
       \/ \E text \in ocr_texts(doc[k].img) :
          /\ tasks' = [tasks EXCEPT ![k] = [state |-> "done", text |-> text]]
          /\ UNCHANGED <<ocr_path, results, batch_start, orphans, pc, error>>
    /\ UNCHANGED <<cacheVars, reqVars, selVars, acc, hybridVars, tables, mathVars, result, document>>

\* gather returns: results.extend(batch_results); next batch, or the response
ocr_batch_done ==
    /\ pc = "ocr_gather"
    /\ \A k \in batch_of(tasks, batch_start) : tasks[k].state = "done"
    /\ results' = results \o batch_results(tasks, batch_start)
    /\ batch_start' = batch_start + BatchSize
    /\ IF batch_start' < Len(tasks)
       THEN /\ tasks' = start_batch(tasks, batch_start')
            /\ UNCHANGED <<acc, result, pc>>
       ELSE /\ acc' = ocr_response(results', Acc0)
            /\ result' = extraction_result(acc', "ocr")
            /\ pc' = "build"
            /\ UNCHANGED tasks
    /\ UNCHANGED <<cacheVars, reqVars, selVars, hybridVars, tables, mathVars, ocr_path, orphans,
                   document, error>>

\* a task left running by a gather that raised ends; nobody reads its result
orphan_done ==
    /\ orphans > 0
    /\ orphans' = orphans - 1
    /\ UNCHANGED <<cacheVars, reqVars, pc, selVars, acc, hybridVars, tables, mathVars, ocrVars,
                   result, document, error>>

(***************************************************************************)
(* parse_pdf: the final document                                           *)
(***************************************************************************)
\* the warning about the word count is assigned, not appended
warnings_last_replaces(chars, opts, res) ==
    IF res.totalWordCount < 100 THEN <<"Very little text extracted">>
    ELSE IF chars.is_scanned /\ ~Get(opts, "ocr_enabled", FALSE)
    THEN <<"Document appears to be scanned but OCR was not enabled">> ELSE <<>>

\* processing_info["warnings"]
warnings(chars, opts, res) ==
    (IF chars.is_scanned /\ ~Get(opts, "ocr_enabled", FALSE)
     THEN <<"Document appears to be scanned but OCR was not enabled">> ELSE <<>>)
    \o (IF res.totalWordCount < 100 THEN <<"Very little text extracted">> ELSE <<>>)

\* _build_document_structure, set_in_cache, return parsed_document
build_document_structure ==
    /\ pc = "build"
    /\ document' =
          [pages |-> result.pages, fullText |-> result.fullText,
           totalWordCount |-> result.totalWordCount,
           totalPages |-> characteristics.total_pages,
           extractionMethod |-> result.extractionMethod,
           warnings |-> warnings(characteristics, options, result)]
    /\ heap' = Append(heap, document')
    /\ cache' = set_in_cache(cache, get_cache_key(FilePath, options), Len(heap'), clock,
                             CacheTtl)
    /\ pc' = "done"
    /\ UNCHANGED <<clock, calls, reqVars, selVars, acc, hybridVars, tables, mathVars, ocrVars,
                   orphans, result, error>>

Next ==
    \/ analyze_and_dispatch
    \/ extract_text_focused
    \/ hybrid_sync_extract_text
    \/ hybrid_page
    \/ hybrid_return
    \/ table_extract_tables
    \/ table_sync_extract_text
    \/ math_start
    \/ math_equations_done
    \/ math_text_done
    \/ math_merge
    \/ extract_ocr_heavy
    \/ convert_pdf_done
    \/ fitz_extract_pages_done
    \/ \E k \in 1..MaxOcrPages : page_task_done(k)
    \/ ocr_batch_done
    \/ orphan_done
    \/ build_document_structure

Spec == Init /\ [][Next]_vars

(***************************************************************************)
(* Functions applied on their own: the strategy selector and the OCR       *)
(* provider chain, on inputs drawn from bounded grids.                     *)
(***************************************************************************)
\* densities on both sides of every threshold of _determine_strategy (hundredths)
SelDensities == {0, 30, 31, 50, 51, 70, 71, 100}

SelInputs ==
    [is_scanned : BOOLEAN, has_equations : BOOLEAN, text_density : SelDensities,
     image_density : SelDensities, table_density : SelDensities]

InitSel ==
    /\ doc = <<>>
    /\ options = <<>>
    /\ InitPipeline
    /\ probe \in {[fn |-> "determine_strategy", args |-> a, called |-> FALSE,
                   out |-> "none"] : a \in SelInputs}

\* strategy = _determine_strategy(...) in analyze_pdf
sel_determine_strategy ==
    /\ probe.fn = "determine_strategy"
    /\ ~probe.called
    /\ probe' = [probe EXCEPT !.called = TRUE,
                    !.out = determine_strategy(probe.args.is_scanned,
                                probe.args.text_density, probe.args.image_density,
                                probe.args.table_density, probe.args.has_equations)]
    /\ UNCHANGED <<cacheVars, doc, options, pc, selVars, acc, hybridVars, tables, mathVars, ocrVars,
                   orphans, result, document, error>>

\* analyze_pdf's except branch: the fingerprint does not come from _determine_strategy
sel_failure_fingerprint ==
    /\ probe.fn = "determine_strategy"
    /\ ~probe.called
    /\ probe' = [probe EXCEPT !.fn = "analysis_failed", !.called = TRUE,
                    !.out = FailureCharacteristics.recommended_strategy]
    /\ UNCHANGED <<cacheVars, doc, options, pc, selVars, acc, hybridVars, tables, mathVars, ocrVars,
                   orphans, result, document, error>>

NextSel == sel_determine_strategy \/ sel_failure_fingerprint

SpecSel == InitSel /\ [][NextSel]_vars

\* the images handed to the provider chain
ChainImages == {<<>>, <<" ">>, <<"b">>, <<"c", " ", "d", "\n">>}

InitChain ==
    /\ doc = <<>>
    /\ options = <<>>
    /\ InitPipeline
    /\ probe \in {[fn |-> "process_page_data", img |-> i, env |-> e, called |-> FALSE,
                   out |-> process_image_ocr(<<>>, e),
                   page |-> page_data(0, <<>>, 0, <<>>)] :
                    i \in ChainImages, e \in OcrEnvs}

\* _process_page_data(img_data, page_num, options) for page 1
chain_process_page_data ==
    /\ probe.fn = "process_page_data"
    /\ ~probe.called
    /\ LET r == process_image_ocr(probe.img, probe.env) IN
       probe' = [probe EXCEPT !.called = TRUE, !.out = r,
                    !.page = page_data(page_number_of(0), r.text, 0, <<>>)]
    /\ UNCHANGED <<cacheVars, doc, options, pc, selVars, acc, hybridVars, tables, mathVars, ocrVars,
                   orphans, result, document, error>>

NextChain == chain_process_page_data

SpecChain == InitChain /\ [][NextChain]_vars

(***************************************************************************)
(* Properties of the extraction result.                                    *)
(***************************************************************************)
Extracted == result.extractionMethod # "none"

RECURSIVE ParagraphJoin(_)
\* the contents of pgs with one blank line between consecutive pages
ParagraphJoin(pgs) ==
    IF pgs = <<>> THEN <<>>
    ELSE IF Len(pgs) = 1 THEN pgs[1].content
    ELSE pgs[1].content \o <<"\n", "\n">> \o ParagraphJoin(Tail(pgs))

InPageNumberOrder(pgs) ==
    \A i, j \in 1..Len(pgs) : i < j => pgs[i].pageNumber < pgs[j].pageNumber

\* C1: for each of the five strategies the returned fullText is the page
\* contents, taken in increasing pageNumber order, with exactly "\n\n" between
\* consecutive pages; the document parse_pdf returns carries the same text.
C1_FullTextIsJoin ==
    /\ Extracted =>
          /\ InPageNumberOrder(result.pages)
          /\ result.fullText = ParagraphJoin(result.pages)
    /\ pc = "done" =>
          /\ document.pages = result.pages
          /\ document.fullText = ParagraphJoin(document.pages)

\* a hybrid parse of two pages with text, one of them completed by OCR
C1_Witness ==
    /\ pc = "done"
    /\ document.extractionMethod = "hybrid"
    /\ Len(document.pages) >= 2
    /\ \A k \in 1..Len(document.pages) : document.pages[k].content # <<>>
    /\ \E k \in 1..Len(document.pages) : document.pages[k].content # doc[k].text

RECURSIVE Tokens(_, _)
\* the whitespace-separated tokens of text, scanned left to right; in_word says
\* whether the previous character belonged to a token
Tokens(text, in_word) ==
    IF text = <<>> THEN 0
    ELSE IF Head(text) \in Whitespace THEN Tokens(Tail(text), FALSE)
    ELSE (IF in_word THEN 0 ELSE 1) + Tokens(Tail(text), TRUE)

RECURSIVE SumContentTokens(_)
SumContentTokens(pgs) ==
    IF pgs = <<>> THEN 0
    ELSE Tokens(Head(pgs).content, FALSE) + SumContentTokens(Tail(pgs))

RECURSIVE SumWordCounts(_)
SumWordCounts(pgs) ==
    IF pgs = <<>> THEN 0 ELSE Head(pgs).wordCount + SumWordCounts(Tail(pgs))

\* C2: for each of the five strategies totalWordCount is the sum over the
\* returned pages of the whitespace-separated tokens of the page's final
\* content, which is also the sum of the pages' wordCount fields.
C2_TotalWordCountIsSum ==
    /\ Extracted =>
          /\ result.totalWordCount = SumContentTokens(result.pages)
          /\ result.totalWordCount = SumWordCounts(result.pages)
    /\ pc = "done" => document.totalWordCount = SumContentTokens(document.pages)

\* a result of several pages, one holding a word of several characters and one
\* holding two words
C2_Witness ==
    /\ Extracted
    /\ Len(result.pages) >= 2
    /\ \E k \in 1..Len(result.pages) :
          LET content == result.pages[k].content IN
          /\ result.pages[k].wordCount >= 1
          /\ result.pages[k].wordCount
                < Cardinality({i \in 1..Len(content) : content[i] \notin Whitespace})
    /\ \E k \in 1..Len(result.pages) : result.pages[k].wordCount >= 2

\* what each extraction method may leave as the content of an input page
ExpectedContents(method, page) ==
    CASE method \in {"text_focused", "table_focused"} -> {page.plumb}
      [] method = "math_focused" -> {page.text}
      [] method = "hybrid" ->
            {page.text}
            \cup {Strip(page.text \o <<"\n">> \o o) : o \in {page.img, Strip(page.img)} \ {<<>>}}
      [] method = "ocr" -> {page.img, Strip(page.img), <<>>}
      [] OTHER -> {}

\* C3: the returned pages carry pageNumber 1, 2, ..., n in list order, and page
\* k holds the content of input page k, whatever order the concurrently
\* processed pages completed in.
C3_PagesInInputOrder ==
    Extracted =>
        \A k \in 1..Len(result.pages) :
            /\ result.pages[k].pageNumber = k
            /\ k <= Len(doc)
            /\ result.pages[k].content \in ExpectedContents(result.extractionMethod, doc[k])

\* an OCR result of more than one batch, built while tasks a failed gather left
\* behind are still running
C3_Witness ==
    /\ Extracted
    /\ result.extractionMethod = "ocr"
    /\ Len(result.pages) > BatchSize
    /\ orphans > 0
    /\ \E j, k \in 1..Len(result.pages) : result.pages[j].content # result.pages[k].content

\* C4 as the specification states it: with options.max_pages = m on a file of
\* N pages every strategy returns exactly pages 1..min(m, N), and all N pages
\* when max_pages is absent.
C4_MaxPagesCapsEveryStrategy ==
    Extracted =>
        Len(result.pages) =
            (IF "max_pages" \in DOMAIN options /\ options["max_pages"] < Len(doc)
             THEN options["max_pages"] ELSE Len(doc))

(***************************************************************************)
(* Properties of strategy selection and dispatch.                          *)
(***************************************************************************)
\* C5: the selector returns the first match of: scanned -> ocr_heavy;
\* equations -> math_focus; table density above 0.3 -> table_focus; image
\* density above 0.5 with text density below 0.5 -> hybrid; text density above
\* 0.7 -> text_focus; otherwise hybrid.  Every fingerprint, the failure
\* fingerprint included, recommends one of the five strategy names.
C5_SelectorFirstMatch ==
    probe.called =>
        /\ probe.out \in StrategyNames
        /\ probe.fn = "analysis_failed" => probe.out = "text_focus"
        /\ probe.fn = "determine_strategy" =>
              LET a == probe.args
                  r1 == a.is_scanned
                  r2 == a.has_equations
                  r3 == a.table_density > 30
                  r4 == a.image_density > 50 /\ a.text_density < 50
                  r5 == a.text_density > 70
              IN  /\ r1 => probe.out = "ocr_heavy"
                  /\ ~r1 /\ r2 => probe.out = "math_focus"
                  /\ ~r1 /\ ~r2 /\ r3 => probe.out = "table_focus"
                  /\ ~r1 /\ ~r2 /\ ~r3 /\ r4 => probe.out = "hybrid"
                  /\ ~r1 /\ ~r2 /\ ~r3 /\ ~r4 /\ r5 => probe.out = "text_focus"
                  /\ ~r1 /\ ~r2 /\ ~r3 /\ ~r4 /\ ~r5 => probe.out = "hybrid"

\* equations and a table density above the threshold: the earlier rule wins
C5_Witness ==
    /\ probe.fn = "determine_strategy"
    /\ probe.called
    /\ ~probe.args.is_scanned
    /\ probe.args.has_equations
    /\ probe.args.table_density > 30
    /\ probe.args.text_density > 70
    /\ probe.out = "math_focus"

\* the steps of parse_pdf that belong to each extractor
ExtractorSteps ==
    [extract_text_focused |-> {"extract_text_focused"},
     extract_hybrid |-> {"extract_hybrid", "hybrid_loop"},
     extract_table_focused |-> {"extract_table_focused", "table_text"},
     extract_math_focused |-> {"extract_math_focused", "math_gather"},
     extract_ocr_heavy |-> {"extract_ocr_heavy", "convert", "fitz_extract", "ocr_gather"}]

\* the extractionMethod each extractor reports
ExtractorMethod ==
    [extract_text_focused |-> "text_focused", extract_hybrid |-> "hybrid",
     extract_table_focused |-> "table_focused", extract_math_focused |-> "math_focused",
     extract_ocr_heavy |-> "ocr"]

AllExtractorSteps == UNION {ExtractorSteps[e] : e \in DOMAIN ExtractorSteps}

\* only the extractor e runs, and a result comes from it
OnlyRuns(e) ==
    /\ extractor = e
    /\ pc \in AllExtractorSteps => pc \in ExtractorSteps[e]
    /\ Extracted => result.extractionMethod = ExtractorMethod[e]

Forced ==
    /\ strategy # "none"
    /\ "force_strategy" \in DOMAIN options

\* C6: when options carries force_strategy with one of the five names, exactly
\* that strategy's extractor is run, whatever the analysis recommended; the
\* recommended strategy's extractor is not.
C6_ForceStrategyOverrides ==
    (Forced /\ options["force_strategy"] \in StrategyNames) =>
        /\ strategy = options["force_strategy"]
        /\ OnlyRuns(Strategies[options["force_strategy"]])

\* a file analysed as scanned, parsed to the end by the forced text extractor
C6_Witness ==
    /\ pc = "done"
    /\ Forced
    /\ options["force_strategy"] = "text_focus"
    /\ characteristics.recommended_strategy = "ocr_heavy"
    /\ document.extractionMethod = "text_focused"
    /\ Len(document.pages) >= 1

\* what the text extractor itself can raise
TextFocusedErrors == {"pdfplumber_open", "page_tables"}

\* C7: for a strategy name that is not one of the five, the dispatch runs the
\* text_focus extractor and returns its result; the dispatch itself never
\* raises and never returns without a result.
C7_UnknownStrategyFallsBack ==
    (strategy \notin StrategyNames \cup {"none"}) =>
        /\ OnlyRuns("extract_text_focused")
        /\ pc \in {"extract_text_focused", "build", "done", "failed"}
        /\ pc = "failed" => error \in TextFocusedErrors
        /\ pc \in {"build", "done"} =>
              result = extraction_result(text_focused_pages(doc, options, 0, Acc0),
                                         "text_focused")

\* an unknown forced name, parsed to the end with the text extractor's pages
C7_Witness ==
    /\ pc = "done"
    /\ strategy = "bogus"
    /\ document.extractionMethod = "text_focused"
    /\ Len(document.pages) >= 1
    /\ document.totalWordCount > 0

(***************************************************************************)
(* Properties of the OCR stage and of failure handling.                    *)
(***************************************************************************)
\* C8 as the specification states it: at most five page-OCR tasks are in
\* flight at any time, on either render path, also after a page failure or
\* the handover from pdf2image to PyMuPDF.
C8_AtMostFiveInFlight == in_flight <= 5

\* the per-page steps that are stated to be absorbed
PageStepErrors == {"page_tables", "page_equations", "page_images", "page_ocr"}

\* C9 as the specification states it: a failure of table, equation or image
\* extraction or of OCR on one page never becomes a whole-document error.
C9_PageFailuresAbsorbed == pc = "failed" => error \notin PageStepErrors

\* C10: _process_image_ocr tries the cloud provider first when it is
\* configured, then the local provider when the cloud attempt raised or gave
\* empty text; it returns the first non-empty text, returns "" only when no
\* attempted provider produced text, and never raises, so a page whose chain
\* is exhausted is emitted with empty content.
C10_ProviderChain ==
    (probe.fn = "process_page_data" /\ probe.called) =>
        LET e == probe.env
            cloud_text == IF e.vision_client /\ e.vision = "text" THEN probe.img ELSE <<>>
            local_text == IF e.pytesseract /\ e.tess = "text" THEN Strip(probe.img) ELSE <<>>
            r == probe.out
        IN  /\ ~r.raised
            /\ e.vision_client <=> (r.calls # <<>> /\ r.calls[1] = "cloud_vision")
            /\ (e.pytesseract /\ cloud_text = <<>>)
                  <=> (r.calls # <<>> /\ r.calls[Len(r.calls)] = "tesseract")
            /\ Len(r.calls) <= 2
            /\ cloud_text # <<>> => r.text = cloud_text
            /\ cloud_text = <<>> => r.text = local_text
            /\ r.text = <<>> <=> (cloud_text = <<>> /\ local_text = <<>>)
            /\ probe.page.content = r.text
            /\ probe.page.pageNumber = 1

\* the cloud call raises and the local provider supplies the text
C10_Witness ==
    /\ probe.fn = "process_page_data"
    /\ probe.called
    /\ probe.env.vision_client
    /\ probe.env.vision = "raise"
    /\ probe.out.calls = <<"cloud_vision", "tesseract">>
    /\ probe.out.text # <<>>
    /\ probe.page.content = probe.out.text

(***************************************************************************)
(* Analyzer helpers applied on their own (analyzer.py).                    *)
(***************************************************************************)
\* largest page count handed to _get_sample_pages
MaxTotalPages == 100

RangeSeq(lo, hi) == [k \in 1..(IF hi > lo THEN hi - lo ELSE 0) |-> lo + k - 1]

Max(a, b) == IF a >= b THEN a ELSE b

RECURSIVE Dedup(_, _)
\* list(set(samples)): every element once; the order Python gives is not
\* specified, the order of first occurrence stands for it
Dedup(samples, seen) ==
    IF samples = <<>> THEN <<>>
    ELSE IF Head(samples) \in seen THEN Dedup(Tail(samples), seen)
    ELSE <<Head(samples)>> \o Dedup(Tail(samples), seen \cup {Head(samples)})

\* the sampler without the small-document rule and without windows
get_sample_pages_first_ten(total_pages) == RangeSeq(0, Min(10, total_pages))

\* _get_sample_pages
get_sample_pages(total_pages) ==
    IF total_pages <= 20 THEN RangeSeq(0, total_pages)
    ELSE LET middle == total_pages \div 2
             samples == RangeSeq(0, Min(10, total_pages))
                        \o RangeSeq(Max(10, middle - 2), Min(middle + 3, total_pages))
                        \o RangeSeq(Max(middle + 3, total_pages - 5), total_pages)
         IN  Dedup(samples, {})

InitSample ==
    /\ doc = <<>>
    /\ options = <<>>
    /\ InitPipeline
    /\ probe \in {[fn |-> "get_sample_pages", total_pages |-> n, called |-> FALSE,
                   out |-> <<>>] : n \in 0..MaxTotalPages}

\* pages_to_analyze = _get_sample_pages(total_pages)
sample_get_sample_pages ==
    /\ probe.fn = "get_sample_pages"
    /\ ~probe.called
    /\ probe' = [probe EXCEPT !.called = TRUE, !.out = get_sample_pages(probe.total_pages)]
    /\ UNCHANGED <<cacheVars, doc, options, pc, selVars, acc, hybridVars, tables, mathVars, ocrVars,
                   orphans, result, document, error>>

NextSample == sample_get_sample_pages

SpecSample == InitSample /\ [][NextSample]_vars

\* text and image density in hundredths, characters per page
ScanTextDensities == {0, 5, 9, 10, 11, 90}
ScanImageDensities == {0, 80, 81, 100, 250}
ScanAvgTexts == {0, 50, 99, 100, 199, 200, 3000}

\* the classifier with the image rule left out
is_scanned_pdf_text_rule_only(text_density, avg_text_per_page, image_density) ==
    text_density < 10 /\ avg_text_per_page < 100

\* _is_scanned_pdf; densities in hundredths
is_scanned_pdf(text_density, avg_text_per_page, image_density) ==
    IF text_density < 10 /\ avg_text_per_page < 100 THEN TRUE
    ELSE IF image_density > 80 /\ avg_text_per_page < 200 THEN TRUE
    ELSE FALSE

InitScan ==
    /\ doc = <<>>
    /\ options = <<>>
    /\ InitPipeline
    /\ probe \in {[fn |-> "is_scanned_pdf", text_density |-> td, avg_text_per_page |-> av,
                   image_density |-> imd, called |-> FALSE, out |-> FALSE] :
                    td \in ScanTextDensities, av \in ScanAvgTexts,
                    imd \in ScanImageDensities}

\* is_scanned = _is_scanned_pdf(...)
scan_is_scanned_pdf ==
    /\ probe.fn = "is_scanned_pdf"
    /\ ~probe.called
    /\ probe' = [probe EXCEPT !.called = TRUE,
                    !.out = is_scanned_pdf(probe.text_density, probe.avg_text_per_page,
                                           probe.image_density)]
    /\ UNCHANGED <<cacheVars, doc, options, pc, selVars, acc, hybridVars, tables, mathVars, ocrVars,
                   orphans, result, document, error>>

NextScan == scan_is_scanned_pdf

SpecScan == InitScan /\ [][NextScan]_vars

\* C19: _is_scanned_pdf is true exactly when (text_density < 0.1 and
\* avg_text_per_page < 100) or (image_density > 0.8 and avg_text_per_page <
\* 200); density 0.05 with 50 characters per page is scanned and density 0.9
\* with 3000 characters per page is not, for every image density.
C19_ScannedExactly ==
    (probe.fn = "is_scanned_pdf" /\ probe.called) =>
        /\ probe.out <=>
              \/ (probe.text_density < 10 /\ probe.avg_text_per_page < 100)
              \/ (probe.image_density > 80 /\ probe.avg_text_per_page < 200)
        /\ (probe.text_density = 5 /\ probe.avg_text_per_page = 50) => probe.out
        /\ (probe.text_density = 90 /\ probe.avg_text_per_page = 3000) => ~probe.out

\* scanned by the image rule alone: dense text, many images, little text per page
C19_Witness ==
    /\ probe.fn = "is_scanned_pdf"
    /\ probe.called
    /\ probe.text_density = 90
    /\ probe.image_density = 81
    /\ probe.avg_text_per_page = 199
    /\ probe.out

SeqToSet(q) == {q[i] : i \in 1..Len(q)}

\* C20: _get_sample_pages(n) returns every index 0..n-1 when n <= 20; for
\* n > 20 exactly the first 10 pages, the 5-page window around the middle page
\* and the last 5 pages, each once (20 indices for n = 100); every index is in
\* [0, n).
C20_SamplePages ==
    (probe.fn = "get_sample_pages" /\ probe.called) =>
        LET n == probe.total_pages
            out == probe.out
            middle == n \div 2
        IN  /\ \A i, j \in 1..Len(out) : i # j => out[i] # out[j]
            /\ \A i \in 1..Len(out) : 0 <= out[i] /\ out[i] < n
            /\ n <= 20 => SeqToSet(out) = 0..(n - 1)
            /\ n > 20 =>
                  SeqToSet(out) = (0..9) \cup ((middle - 2)..(middle + 2)) \cup ((n - 5)..(n - 1))
            /\ n = 100 => Len(out) = 20

\* the largest document: three separate windows
C20_Witness ==
    /\ probe.fn = "get_sample_pages"
    /\ probe.called
    /\ probe.total_pages = 100
    /\ SeqToSet(probe.out) = (0..9) \cup (48..52) \cup (95..99)

(***************************************************************************)
(* analyze_pdf on its own (analyzer.py).                                   *)
(***************************************************************************)
\* longest file handed to analyze_pdf
MaxAnalyzedPages == 3

\* what the analyzer reads of a page: len(page.get_text().strip()), the number
\* of images, a math font among page.get_fonts(), a math indicator in the
\* text, a table found by pdfplumber
ADense == [text_length |-> 150, images |-> 0, math_font |-> FALSE, math_text |-> FALSE,
           table |-> TRUE]
AImage == [text_length |-> 0, images |-> 2, math_font |-> FALSE, math_text |-> FALSE,
           table |-> FALSE]
AMath == [text_length |-> 60, images |-> 1, math_font |-> FALSE, math_text |-> TRUE,
          table |-> FALSE]

AnalysisPageKinds == {ADense, AImage, AMath}

\* the files: one that cannot be read, one whose bytes are no PDF, PDFs
AnalysisFiles ==
    {[readable |-> FALSE, is_pdf |-> FALSE, pages |-> <<>>],
     [readable |-> TRUE, is_pdf |-> FALSE, pages |-> <<>>]}
    \cup {[readable |-> TRUE, is_pdf |-> TRUE, pages |-> ps] :
            ps \in UNION {[1..n -> AnalysisPageKinds] : n \in 0..MaxAnalyzedPages}}

RECURSIVE SumField(_, _, _)
\* the sum of field over the sampled pages (0-based indices)
SumField(pages, sample, field) ==
    IF sample = <<>> THEN 0
    ELSE pages[Head(sample) + 1][field] + SumField(pages, Tail(sample), field)

CountSample(pages, sample, Test(_)) ==
    Cardinality({i \in 1..Len(sample) : Test(pages[sample[i] + 1])})

\* int((count / sample_size) * total_pages)
extrapolate(count, sample_size, total_pages) ==
    IF sample_size > 0 THEN (count * total_pages) \div sample_size ELSE count

\* a ratio in hundredths, rounded down
Hundredths(num, den) == IF den > 0 THEN (100 * num) \div den ELSE 0

\* the PDFCharacteristics of the except branch
ZeroedCharacteristics ==
    [total_pages |-> 0, has_text |-> FALSE, has_images |-> FALSE, has_tables |-> FALSE,
     is_scanned |-> FALSE, text_density |-> 0, image_density |-> 0, table_density |-> 0,
     avg_text_per_page |-> 0, has_equations |-> FALSE,
     recommended_strategy |-> FailureCharacteristics.recommended_strategy]

\* _detect_tables: pages_with_tables / len(pages_to_check), 0.0 when it fails
detect_tables(pages, fails) ==
    LET pages_to_check == get_sample_pages(Len(pages))
        IsTable(pg) == pg.table
    IN  IF fails THEN 0
        ELSE Hundredths(CountSample(pages, pages_to_check, IsTable), Len(pages_to_check))

\* the try block of analyze_pdf after fitz.open succeeded
analyze_pages(pages, tables_fail) ==
    LET total_pages == Len(pages)
        sample == get_sample_pages(total_pages)
        HasText(pg) == pg.text_length > 50
        HasMathFont(pg) == pg.math_font
        sample_size == Len(sample)
        text_pages == extrapolate(CountSample(pages, sample, HasText), sample_size,
                                  total_pages)
        image_count == extrapolate(SumField(pages, sample, "images"), sample_size,
                                   total_pages)
        total_text_length == extrapolate(SumField(pages, sample, "text_length"),
                                         sample_size, total_pages)
        avg_text_per_page == IF total_pages > 0 THEN total_text_length \div total_pages
                             ELSE 0
        text_density == Hundredths(text_pages, total_pages)
        image_density == Hundredths(image_count, total_pages)
        is_scanned == is_scanned_pdf(text_density, avg_text_per_page, image_density)
        table_density == detect_tables(pages, tables_fail)
        \* potential_equations, else _has_math_content(text) of the last page read
        potential_equations ==
            \/ CountSample(pages, sample, HasMathFont) > 0
            \/ pages[sample[sample_size] + 1].math_text
    IN  IF sample_size = 0
        THEN \* `text` was never bound: NameError, caught by the except branch
             ZeroedCharacteristics
        ELSE [total_pages |-> total_pages, has_text |-> text_density > 10,
              has_images |-> image_count > 0, has_tables |-> table_density > 0,
              is_scanned |-> is_scanned, text_density |-> text_density,
              image_density |-> image_density, table_density |-> table_density,
              avg_text_per_page |-> avg_text_per_page,
              has_equations |-> potential_equations,
              recommended_strategy |->
                  determine_strategy(is_scanned, text_density, image_density,
                                     table_density, potential_equations)]

InitAnalyze ==
    /\ doc = <<>>
    /\ options = <<>>
    /\ InitPipeline
    /\ probe \in {[fn |-> "analyze_pdf", file |-> f, step |-> "entered",
                   out |-> ZeroedCharacteristics] : f \in AnalysisFiles}

\* file_hash = _calculate_file_hash(file_path): open(file_path, 'rb') ahead of
\* the try block
analyze_calculate_file_hash ==
    /\ probe.fn = "analyze_pdf"
    /\ probe.step = "entered"
    /\ probe' = [probe EXCEPT !.step = IF probe.file.readable THEN "hashed" ELSE "raised"]
    /\ UNCHANGED <<cacheVars, doc, options, pc, selVars, acc, hybridVars, tables, mathVars, ocrVars,
                   orphans, result, document, error>>

\* the try block and its except branch
analyze_try ==
    /\ probe.fn = "analyze_pdf"
    /\ probe.step = "hashed"
    /\ \E tables_fail \in BOOLEAN :
          probe' = [probe EXCEPT !.step = "returned",
                       !.out = IF probe.file.is_pdf
                               THEN analyze_pages(probe.file.pages, tables_fail)
                               ELSE ZeroedCharacteristics]
    /\ UNCHANGED <<cacheVars, doc, options, pc, selVars, acc, hybridVars, tables, mathVars, ocrVars,
                   orphans, result, document, error>>

NextAnalyze == analyze_calculate_file_hash \/ analyze_try

SpecAnalyze == InitAnalyze /\ [][NextAnalyze]_vars

\* C11 as the specification states it: analyze_pdf never propagates an
\* exception; for a file that cannot be read or is no PDF it returns the zeroed
\* fingerprint with recommended_strategy text_focus.
C11_AnalyzerNeverRaises ==
    probe.fn = "analyze_pdf" =>
        /\ probe.step # "raised"
        /\ (probe.step = "returned" /\ ~(probe.file.readable /\ probe.file.is_pdf)) =>
              /\ probe.out = ZeroedCharacteristics
              /\ probe.out.recommended_strategy = "text_focus"

(***************************************************************************)
(* The two parse routes (api/routes/parser.py, api/routes/qstash_parser.py)*)
(* around a parser call that succeeds or raises.                           *)
(***************************************************************************)
\* why a parse failed
FailureCauses == {"corruption", "unsupported_structure", "transient_ocr", "network",
                  "provider"}

\* str(e) of the exception a parse raises, as its words; parse_pdf prefixes
\* "Failed to parse PDF:" to the message of the library that failed
FailureMessages ==
    {<<"Failed", "to", "parse", "PDF:", "No", "/Root", "object!">>,
     <<"Failed", "to", "parse", "PDF:", "file", "is", "Corrupted">>,
     <<"Failed", "to", "parse", "PDF:", "Unsupported", "filter">>,
     <<"Failed", "to", "parse", "PDF:", "connection", "reset">>,
     <<"Failed", "to", "parse", "PDF:", "deadline", "exceeded">>,
     <<"Failed", "to", "parse", "PDF:", "unsupported", "language", "hint">>}

ParseOutcomes ==
    {[ok |-> TRUE, cause |-> "none", message |-> <<>>]}
    \cup {[ok |-> FALSE, cause |-> c, message |-> m] :
            c \in FailureCauses, m \in FailureMessages}

\* str.lower() on the words the messages use
LowerWord(w) ==
    CASE w = "Corrupted" -> "corrupted"
      [] w = "Unsupported" -> "unsupported"
      [] w = "Failed" -> "failed"
      [] w = "No" -> "no"
      [] OTHER -> w

\* needle in str(e).lower()
mentions(message, needle) == \E i \in 1..Len(message) : LowerWord(message[i]) = needle

NoResponse ==
    [kind |-> "none", success |-> FALSE, has_data |-> FALSE, has_flag |-> FALSE,
     retryable |-> FALSE, code |-> "none"]

\* parse_from_qstash: the except branch
qstash_error_response(message) ==
    IF mentions(message, "corrupted")
    THEN [kind |-> "response", success |-> FALSE, has_data |-> FALSE, has_flag |-> TRUE,
          retryable |-> FALSE, code |-> "CORRUPTED_FILE"]
    ELSE IF mentions(message, "unsupported")
    THEN [kind |-> "response", success |-> FALSE, has_data |-> FALSE, has_flag |-> TRUE,
          retryable |-> FALSE, code |-> "UNSUPPORTED_FORMAT"]
    ELSE [kind |-> "http_500", success |-> FALSE, has_data |-> FALSE, has_flag |-> TRUE,
          retryable |-> TRUE, code |-> "PARSE_ERROR"]

\* parse_document: the except Exception branch
parse_document_error_response(message) ==
    [kind |-> "response", success |-> FALSE, has_data |-> FALSE, has_flag |-> TRUE,
     retryable |-> TRUE, code |-> "PARSE_ERROR"]

SuccessResponse ==
    [kind |-> "response", success |-> TRUE, has_data |-> TRUE, has_flag |-> FALSE,
     retryable |-> FALSE, code |-> "none"]

InitRoute ==
    /\ doc = <<>>
    /\ options = <<>>
    /\ InitPipeline
    /\ probe \in {[fn |-> r, outcome |-> o, called |-> FALSE, out |-> NoResponse] :
                    r \in {"parse_document", "parse_from_qstash"}, o \in ParseOutcomes}

\* POST /parse with the cache missing: result = await parser(temp_file, options)
parse_document ==
    /\ probe.fn = "parse_document"
    /\ ~probe.called
    /\ probe' = [probe EXCEPT !.called = TRUE,
                    !.out = IF probe.outcome.ok THEN SuccessResponse
                            ELSE parse_document_error_response(probe.outcome.message)]
    /\ UNCHANGED <<cacheVars, doc, options, pc, selVars, acc, hybridVars, tables, mathVars, ocrVars,
                   orphans, result, document, error>>

\* POST /parse/qstash: result = await parser(temp_file, options)
parse_from_qstash ==
    /\ probe.fn = "parse_from_qstash"
    /\ ~probe.called
    /\ probe' = [probe EXCEPT !.called = TRUE,
                    !.out = IF probe.outcome.ok THEN SuccessResponse
                            ELSE qstash_error_response(probe.outcome.message)]
    /\ UNCHANGED <<cacheVars, doc, options, pc, selVars, acc, hybridVars, tables, mathVars, ocrVars,
                   orphans, result, document, error>>

NextRoute == parse_document \/ parse_from_qstash

SpecRoute == InitRoute /\ [][NextRoute]_vars

\* C12 as the specification states it: a failed parse yields one structured
\* error with a retryability flag and no document; the flag says non-retryable
\* when the cause is detected corruption or an unsupported structure and
\* retryable for every other cause.
C12_RetryabilityFollowsCause ==
    (probe.fn \in {"parse_document", "parse_from_qstash"} /\ probe.called
        /\ ~probe.outcome.ok) =>
        /\ ~probe.out.success
        /\ ~probe.out.has_data
        /\ probe.out.has_flag
        /\ ~probe.out.retryable
              <=> probe.outcome.cause \in {"corruption", "unsupported_structure"}

(***************************************************************************)
(* parse_pdf seen from its cache: calls for files of the local storage,    *)
(* with analysis and extraction taken as one step that builds a document.  *)
(***************************************************************************)
\* parse_pdf calls in one run
MaxCalls == 2

\* how often the clock advances, by half a time-to-live each time
MaxTicks == 2

\* local storage: two paths hold the same bytes, a third holds other bytes
FileBytes ==
    ("/tmp/parser_temp/a.pdf" :> "bytes1") @@ ("/tmp/parser_temp/b.pdf" :> "bytes1")
    @@ ("/tmp/parser_temp/c.pdf" :> "bytes2")

CacheOptions == {<<>>, "max_pages" :> 1}

\* the document a miss builds from the bytes of the file and the options;
\* processing_info carries no "cached" key
parsed_document(bytes, opts) ==
    [source |-> bytes, pages |-> Get(opts, "max_pages", 2),
     processingInfo |-> [warnings |-> <<"Very little text extracted">>]]

\* cached_result["processingInfo"]["cached"] = True
tag_cached(d) == [d EXCEPT !.processingInfo = [cached |-> TRUE] @@ d.processingInfo]

InitCache ==
    /\ doc = <<>>
    /\ options = <<>>
    /\ probe = NoProbe
    /\ InitPipeline

\* parse_pdf(file_path, opts), from the cache lookup to the return
cache_parse_pdf ==
    /\ Len(calls) < MaxCalls
    /\ \E path \in DOMAIN FileBytes, opts \in CacheOptions :
          LET cache_key == get_cache_key(path, opts)
              looked == cache_after_get(cache, cache_key, clock)
              base == [path |-> path, bytes |-> FileBytes[path], options |-> opts,
                       key |-> cache_key, at |-> clock]
          IN  IF cache_hit(cache, cache_key, clock)
              THEN LET ref == cache[cache_key].ref IN
                   \* the stored object is tagged in place and returned
                   /\ heap' = [heap EXCEPT ![ref] = tag_cached(heap[ref])]
                   /\ cache' = looked
                   /\ calls' = Append(calls,
                                  base @@ [hit |-> TRUE, analyzed |-> FALSE, ref |-> ref,
                                           returned |-> heap'[ref],
                                           expiry |-> cache[cache_key].expiry])
              ELSE \/ \* analysis, extraction, set_in_cache, return
                      /\ heap' = Append(heap, parsed_document(FileBytes[path], opts))
                      /\ cache' = set_in_cache(looked, cache_key, Len(heap'), clock,
                                               CacheTtl)
                      /\ calls' = Append(calls,
                                     base @@ [hit |-> FALSE, analyzed |-> TRUE,
                                              ref |-> Len(heap'),
                                              returned |-> heap'[Len(heap')],
                                              expiry |-> clock + CacheTtl])
                   \/ \* the parse raises: nothing is stored
                      /\ cache' = looked
                      /\ UNCHANGED <<heap, calls>>
    /\ UNCHANGED <<clock, doc, options, probe, pc, selVars, acc, hybridVars, tables,
                   mathVars, ocrVars, orphans, result, document, error>>

\* time passes between calls
cache_tick ==
    /\ clock < MaxTicks * (CacheTtl \div 2)
    /\ clock' = clock + (CacheTtl \div 2)
    /\ UNCHANGED <<cache, heap, calls, doc, options, probe, pc, selVars, acc, hybridVars,
                   tables, mathVars, ocrVars, orphans, result, document, error>>

NextCache == cache_parse_pdf \/ cache_tick

SpecCache == InitCache /\ [][NextCache]_vars

\* C13 as the specification states it: calls with identical bytes and
\* identical options map to the same cache key wherever the bytes are stored,
\* so the later one is served from the entry of the earlier one while it is
\* unexpired; calls that differ in an option map to different keys.
C13_KeyFollowsBytesAndOptions ==
    \A i, j \in 1..Len(calls) :
        /\ (calls[i].bytes = calls[j].bytes /\ calls[i].options = calls[j].options)
              => calls[i].key = calls[j].key
        /\ (i < j /\ calls[i].bytes = calls[j].bytes /\ calls[i].options = calls[j].options
              /\ calls[j].at < calls[i].expiry) => calls[j].hit
        /\ calls[i].options # calls[j].options => calls[i].key # calls[j].key

\* C14 as the specification states it: a hit returns the document of the miss
\* with only processingInfo.cached = true added, runs neither the analyzer nor
\* an extractor, and changes neither the document the earlier caller received
\* nor another field of the stored entry.
C14_HitReturnsMissDocumentTagged ==
    \A j \in 1..Len(calls) :
        calls[j].hit =>
            \E i \in 1..(j - 1) :
                /\ ~calls[i].hit
                /\ calls[i].key = calls[j].key
                /\ calls[i].ref = calls[j].ref
                /\ calls[j].returned = tag_cached(calls[i].returned)
                /\ ~calls[j].analyzed
                /\ calls[j].expiry = calls[i].expiry
                /\ heap[calls[i].ref] = calls[i].returned

(***************************************************************************)
(* extract_equations_from_page on its own (math_extractor.py).  A page is  *)
(* what the regular expressions match in its text, in the order of the     *)
(* pattern list, and its text blocks.                                      *)
(***************************************************************************)
\* pattern matches and text blocks of a page
MaxMatches == 2
MaxBlocks == 2

EquationOperators == {"=", "+", "-", "*", "/", "^", "_"}

\* the characters of the texts for which str.isalnum() is true; "pi" is U+03C0
AlnumChars == {"x", "y", "1", "2", "pi"}

\* match.group(1) of a pattern with the type tag of the pattern
PatternMatches ==
    {[text |-> <<"x", "=", "1">>, type |-> "simple"],
     [text |-> <<" ", "y", "^", "2", " ">>, type |-> "display"],
     [text |-> <<"x", "y", "1">>, type |-> "inline"],
     [text |-> <<"=", "+", "-">>, type |-> "display"],
     [text |-> <<" ", "x", "+", " ">>, type |-> "inline"]}

\* the concatenated span texts of a text block and whether a span uses a math font
TextBlocks ==
    {[text |-> t, has_math_font |-> f] :
        t \in {<<"x", "=", "1">>, <<"sum">>, <<" ", " ">>, <<"pi">>}, f \in BOOLEAN}

SeqsUpTo(S, n) == UNION {[1..k -> S] : k \in 0..n}

EquationPages ==
    {[matches |-> ms, blocks |-> bs] :
        ms \in SeqsUpTo(PatternMatches, MaxMatches), bs \in SeqsUpTo(TextBlocks, MaxBlocks)}

\* _is_valid_equation
is_valid_equation(text) ==
    /\ \E i \in 1..Len(text) : text[i] \in EquationOperators
    /\ \E i \in 1..Len(text) : text[i] \in AlnumChars

RECURSIVE pattern_equations(_, _, _)
\* the loop over patterns and matches
pattern_equations(matches, page_num, eqs) ==
    IF matches = <<>> THEN eqs
    ELSE LET eq_text == Strip(Head(matches).text)
         IN  pattern_equations(Tail(matches), page_num,
                 IF Len(eq_text) > 2 /\ is_valid_equation(eq_text)
                 THEN Append(eqs, [id |-> <<page_num, Len(eqs)>>, page_number |-> page_num,
                                   type |-> Head(matches).type, raw_text |-> eq_text])
                 ELSE eqs)

RECURSIVE block_equations(_, _, _)
\* the loop over text blocks
block_equations(blocks, page_num, eqs) ==
    IF blocks = <<>> THEN eqs
    ELSE LET block == Head(blocks)
         IN  block_equations(Tail(blocks), page_num,
                 IF block.has_math_font
                    /\ \A i \in 1..Len(eqs) : eqs[i].raw_text # block.text
                 THEN Append(eqs, [id |-> <<page_num, Len(eqs)>>, page_number |-> page_num,
                                   type |-> "structural", raw_text |-> Strip(block.text)])
                 ELSE eqs)

\* extract_equations_from_page
extract_equations_from_page(page, page_num) ==
    block_equations(page.blocks, page_num, pattern_equations(page.matches, page_num, <<>>))

InitEquations ==
    /\ doc = <<>>
    /\ options = <<>>
    /\ InitPipeline
    /\ probe \in {[fn |-> "extract_equations_from_page", page |-> pg, called |-> FALSE,
                   out |-> <<>>] : pg \in EquationPages}

\* page_equations = extract_equations_from_page(page, page_num + 1) for page 1
equations_extract_from_page ==
    /\ probe.fn = "extract_equations_from_page"
    /\ ~probe.called
    /\ probe' = [probe EXCEPT !.called = TRUE,
                    !.out = extract_equations_from_page(probe.page, 1)]
    /\ UNCHANGED <<cacheVars, doc, options, pc, selVars, acc, hybridVars, tables, mathVars,
                   ocrVars, orphans, result, document, error>>

NextEquations == equations_extract_from_page

SpecEquations == InitEquations /\ [][NextEquations]_vars

\* C15 as the specification states it: every emitted equation, of any type
\* tag, has a raw_text with at least one operator from {=,+,-,*,/,^,_} and at
\* least one alphanumeric character.
C15_EveryEquationValid ==
    (probe.fn = "extract_equations_from_page" /\ probe.called) =>
        \A i \in 1..Len(probe.out) :
            /\ \E k \in 1..Len(probe.out[i].raw_text) :
                  probe.out[i].raw_text[k] \in EquationOperators
            /\ \E k \in 1..Len(probe.out[i].raw_text) :
                  probe.out[i].raw_text[k] \in AlnumChars

(***************************************************************************)
(* table_extractor: _process_table and the three representations.  Cell    *)
(* texts are sequences of characters; None is the value pdfplumber gives   *)
(* for an empty cell.                                                      *)
(***************************************************************************)
MaxTableRows == 2

\* Python's None
None == [none |-> TRUE]

\* a cell with text
Str(text) == [text |-> text]

CellName == <<"N", "a", "m", "e">>
CellAge == <<"A", "g", "e">>
CellAnn == <<"A", "n", "n">>
Cell30 == <<"3", "0">>

\* rows as pdfplumber's extract_tables returns them
RawRows ==
    {<<Str(CellName), Str(CellAge)>>, <<Str(CellAnn), Str(Cell30)>>,
     <<Str(<<"7">>), Str(<<"1", ",", "5">>)>>, <<None, Str(<<" ", "x", " ">>)>>,
     <<Str(<<"a", "\"", "b">>), Str(<<"p", "|", "q">>)>>, <<None, Str(<<" ">>)>>,
     <<Str(<<"9">>)>>, <<>>}

RawTables == SeqsUpTo(RawRows, MaxTableRows)

Digits == {"0", "1", "2", "3", "4", "5", "6", "7", "8", "9"}

\* str(value).replace(',', '').replace('$', '').replace('%', '')
strip_formatting(value) == SelectSeq(value, LAMBDA c : c \notin {",", "$", "%"})

\* _is_numeric: float() accepts the text; on texts of letters, digits, blanks and
\* the characters " | these are the non-empty digit strings, blanks around allowed
is_numeric(value) ==
    LET t == Strip(strip_formatting(value))
    IN  t # <<>> /\ \A i \in 1..Len(t) : t[i] \in Digits

\* _is_header_row
is_header_row(row) ==
    IF row = <<>> THEN FALSE
    ELSE IF 2 * Cardinality({i \in 1..Len(row) : row[i] # <<>>}) < Len(row) THEN FALSE
    ELSE Cardinality({i \in 1..Len(row) : is_numeric(row[i])}) < Len(row)

\* [str(cell).strip() if cell else '' for cell in row]
clean_row(row) ==
    [i \in 1..Len(row) |-> IF row[i] = None \/ row[i].text = <<>> THEN <<>> ELSE Strip(row[i].text)]

RECURSIVE clean_table(_)
\* the rows that are not empty and keep a non-empty cell after cleaning
clean_table(raw_table) ==
    IF raw_table = <<>> THEN <<>>
    ELSE LET row == Head(raw_table)
             cleaned_row == clean_row(row)
         IN  (IF row # <<>> /\ \E i \in 1..Len(cleaned_row) : cleaned_row[i] # <<>>
              THEN <<cleaned_row>> ELSE <<>>) \o clean_table(Tail(raw_table))

\* "| " + " | ".join(cells) + " |"
markdown_line(cells) == <<"|", " ">> \o JoinWith(<<" ", "|", " ">>, cells) \o <<" ", "|">>

\* _to_markdown
to_markdown(headers, rows) ==
    IF headers = <<>> /\ rows = <<>> THEN <<>>
    ELSE JoinWith(<<"\n">>,
            (IF headers # <<>>
             THEN <<markdown_line(headers),
                    markdown_line([i \in 1..Len(headers) |-> <<"-", "-", "-">>])>>
             ELSE <<>>)
            \o [r \in 1..Len(rows) |-> markdown_line(rows[r])])

RECURSIVE double_quotes(_)
\* the quote character is written twice inside a quoted field
double_quotes(field) ==
    IF field = <<>> THEN <<>>
    ELSE (IF Head(field) = "\"" THEN <<"\"", "\"">> ELSE <<Head(field)>>)
         \o double_quotes(Tail(field))

\* csv.writer with the default dialect (QUOTE_MINIMAL)
csv_field(field) ==
    IF \E i \in 1..Len(field) : field[i] \in {",", "\"", "\r", "\n"}
    THEN <<"\"">> \o double_quotes(field) \o <<"\"">>
    ELSE field

\* writer.writerow(row): a row of one empty field is written as ""
csv_row(row) ==
    (IF row = <<<<>>>> THEN <<"\"", "\"">>
     ELSE JoinWith(<<",">>, [i \in 1..Len(row) |-> csv_field(row[i])]))
    \o <<"\r", "\n">>

RECURSIVE Concat(_)
Concat(parts) == IF parts = <<>> THEN <<>> ELSE Head(parts) \o Concat(Tail(parts))

\* _to_csv
to_csv(headers, rows) ==
    (IF headers # <<>> THEN csv_row(headers) ELSE <<>>)
    \o Concat([r \in 1..Len(rows) |-> csv_row(rows[r])])

Indent2 == <<" ", " ">>
Indent4 == <<" ", " ", " ", " ">>
TableOpen == <<"<", "t", "a", "b", "l", "e", ">">>
TableClose == <<"<", "/", "t", "a", "b", "l", "e", ">">>
TheadOpen == <<"<", "t", "h", "e", "a", "d", ">">>
TheadClose == <<"<", "/", "t", "h", "e", "a", "d", ">">>
TbodyOpen == <<"<", "t", "b", "o", "d", "y", ">">>
TbodyClose == <<"<", "/", "t", "b", "o", "d", "y", ">">>
TrOpen == <<"<", "t", "r", ">">>
TrClose == <<"<", "/", "t", "r", ">">>
ThOpen == <<"<", "t", "h", ">">>
ThClose == <<"<", "/", "t", "h", ">">>
TdOpen == <<"<", "t", "d", ">">>
TdClose == <<"<", "/", "t", "d", ">">>

\* the lines of one <tr>
html_row(row) ==
    <<Indent2 \o TrOpen>>
    \o [i \in 1..Len(row) |-> Indent4 \o TdOpen \o row[i] \o TdClose]
    \o <<Indent2 \o TrClose>>

\* the body rows are written and the header row is left out
to_html_without_thead(headers, rows) ==
    JoinWith(<<"\n">>,
        <<TableOpen, Indent2 \o TbodyOpen>>
        \o Concat([r \in 1..Len(rows) |-> html_row(rows[r])])
        \o <<Indent2 \o TbodyClose, TableClose>>)

\* _to_html
to_html(headers, rows) ==
    JoinWith(<<"\n">>,
        <<TableOpen>>
        \o (IF headers # <<>>
            THEN <<Indent2 \o TheadOpen \o TrOpen>>
                 \o [i \in 1..Len(headers) |-> Indent4 \o ThOpen \o headers[i] \o ThClose]
                 \o <<Indent2 \o TrClose \o TheadClose>>
            ELSE <<>>)
        \o <<Indent2 \o TbodyOpen>>
        \o Concat([r \in 1..Len(rows) |-> html_row(rows[r])])
        \o <<Indent2 \o TbodyClose, TableClose>>)

\* len(headers) if headers else (len(rows[0]) if rows else 0)
col_count(headers, rows) ==
    IF headers # <<>> THEN Len(headers) ELSE IF rows # <<>> THEN Len(rows[1]) ELSE 0

\* _analyze_table
analyze_table(headers, rows) ==
    LET cols == col_count(headers, rows)
        value(r, c) == IF c <= Len(rows[r]) THEN rows[r][c] ELSE <<>>
        numeric_count(c) == Cardinality({r \in 1..Len(rows) : is_numeric(value(r, c))})
        data_types == IF rows = <<>> THEN <<>>
                      ELSE [c \in 1..cols |->
                              IF 2 * numeric_count(c) > Len(rows) THEN "numeric" ELSE "text"]
    IN  [data_types |-> data_types,
         has_numeric |-> \E c \in 1..Len(data_types) : data_types[c] = "numeric",
         row_count |-> Len(rows), col_count |-> cols]

\* _process_table; None for a table without a non-empty row
process_table(raw_table, page_num, table_idx) ==
    LET cleaned == clean_table(raw_table)
        has_header == cleaned # <<>> /\ is_header_row(cleaned[1])
        headers == IF has_header THEN cleaned[1] ELSE <<>>
        data_rows == IF has_header THEN Tail(cleaned) ELSE cleaned
    IN  IF cleaned = <<>> THEN None
        ELSE [id |-> <<"page", page_num, "_table", table_idx>>, page_number |-> page_num,
              headers |-> headers, rows |-> data_rows, num_rows |-> Len(data_rows),
              num_cols |-> col_count(headers, data_rows),
              representations |-> [markdown |-> to_markdown(headers, data_rows),
                                   csv |-> to_csv(headers, data_rows),
                                   html |-> to_html(headers, data_rows)],
              analysis |-> analyze_table(headers, data_rows)]

InitTable ==
    /\ doc = <<>>
    /\ options = <<>>
    /\ InitPipeline
    /\ probe \in {[fn |-> "process_table", raw_table |-> t, called |-> FALSE, out |-> None] :
                    t \in RawTables}

\* processed = _process_table(raw_table, page_num, table_idx) for the first table of page 1
table_process_table ==
    /\ probe.fn = "process_table"
    /\ ~probe.called
    /\ probe' = [probe EXCEPT !.called = TRUE, !.out = process_table(probe.raw_table, 1, 0)]
    /\ UNCHANGED <<cacheVars, doc, options, pc, selVars, acc, hybridVars, tables, mathVars,
                   ocrVars, orphans, result, document, error>>

NextTable == table_process_table

SpecTable == InitTable /\ [][NextTable]_vars

\* s occurs in text starting at position i
OccursAt(text, s, i) == i + Len(s) - 1 <= Len(text) /\ SubSeq(text, i, i + Len(s) - 1) = s

Contains(text, s) == \E i \in 1..(Len(text) + 1) : OccursAt(text, s, i)

RECURSIVE ContainsInOrderFrom(_, _, _)
\* the parts occur in text one after the other, without overlap, from position i on
ContainsInOrderFrom(text, parts, i) ==
    IF parts = <<>> THEN TRUE
    ELSE LET hits == {j \in i..(Len(text) + 1) : OccursAt(text, Head(parts), j)}
         IN  /\ hits # {}
             /\ ContainsInOrderFrom(text, Tail(parts),
                    (CHOOSE j \in hits : \A k \in hits : j <= k) + Len(Head(parts)))

ContainsInOrder(text, parts) == ContainsInOrderFrom(text, parts, 1)

\* the header cells followed by the cells of the rows, row by row
CellsOf(t) == t.headers \o Concat(t.rows)

Processed == probe.fn = "process_table" /\ probe.called /\ probe.out # None

\* every representation carries the header and row cells in their order, the CSV
\* in the encoding of its fields
SameCellsInOrder ==
    Processed =>
        LET t == probe.out
            cells == CellsOf(t)
        IN  /\ ContainsInOrder(t.representations.markdown, cells)
            /\ ContainsInOrder(t.representations.csv,
                               [i \in 1..Len(cells) |-> csv_field(cells[i])])
            /\ ContainsInOrder(t.representations.html, cells)

IsExampleTable ==
    Processed /\ probe.out.headers = <<CellName, CellAge>>
              /\ probe.out.rows = <<<<CellAnn, Cell30>>>>

\* C16 as the specification states it: the three representations carry the same
\* cells in the same order, and for headers Name, Age and the row Ann, 30 the
\* markdown contains "| Ann | 30 |", the CSV "Ann,30" and the HTML
\* "<td>Ann</td><td>30</td>"
C16_RepresentationsAgree ==
    /\ SameCellsInOrder
    /\ IsExampleTable =>
          /\ Contains(probe.out.representations.markdown, markdown_line(<<CellAnn, Cell30>>))
          /\ Contains(probe.out.representations.csv, CellAnn \o <<",">> \o Cell30)
          /\ Contains(probe.out.representations.html,
                      TdOpen \o CellAnn \o TdClose \o TdOpen \o Cell30 \o TdClose)

\* C16 amended: the same, with the two cells of the HTML row on lines of their own
\* (each after four blanks), "<td>Ann</td>" before "<td>30</td>"
C16_RepresentationsAgreeHtmlLines ==
    /\ SameCellsInOrder
    /\ IsExampleTable =>
          /\ Contains(probe.out.representations.markdown, markdown_line(<<CellAnn, Cell30>>))
          /\ Contains(probe.out.representations.csv, CellAnn \o <<",">> \o Cell30)
          /\ Contains(probe.out.representations.html,
                      Indent4 \o TdOpen \o CellAnn \o TdClose \o <<"\n">>
                      \o Indent4 \o TdOpen \o Cell30 \o TdClose)

\* the example table has been processed
C16_Witness == IsExampleTable

(***************************************************************************)
(* _build_document_structure: the warnings, over fingerprints, options and *)
(* extraction results with any word count up to MaxWordCount.              *)
(***************************************************************************)
MaxWordCount == 101

OcrWarning == "Document appears to be scanned but OCR was not enabled"
LittleTextWarning == "Very little text extracted"

InitWarnings ==
    /\ doc = <<>>
    /\ options = <<>>
    /\ InitPipeline
    /\ probe \in {[fn |-> "warnings", is_scanned |-> sc, opts |-> Opt("ocr_enabled", oe),
                   totalWordCount |-> wc, called |-> FALSE, out |-> <<>>] :
                    sc \in BOOLEAN, oe \in {<<>>, <<TRUE>>, <<FALSE>>}, wc \in 0..MaxWordCount}

\* processing_info["warnings"] as _build_document_structure fills it
warnings_build ==
    /\ probe.fn = "warnings"
    /\ ~probe.called
    /\ probe' = [probe EXCEPT !.called = TRUE,
                    !.out = warnings([is_scanned |-> probe.is_scanned], probe.opts,
                                     [totalWordCount |-> probe.totalWordCount])]
    /\ UNCHANGED <<cacheVars, doc, options, pc, selVars, acc, hybridVars, tables, mathVars,
                   ocrVars, orphans, result, document, error>>

NextWarnings == warnings_build

SpecWarnings == InitWarnings /\ [][NextWarnings]_vars

WarningsBuilt == probe.fn = "warnings" /\ probe.called

LittleText == probe.totalWordCount < 100

\* scanned, and ocr_enabled false or absent
OcrNotEnabled ==
    probe.is_scanned /\ ("ocr_enabled" \notin DOMAIN probe.opts \/ ~probe.opts["ocr_enabled"])

\* C17: the "very little text" warning is in the list exactly when totalWordCount
\* is below 100, the OCR-not-enabled warning exactly when the fingerprint is
\* scanned and ocr_enabled is false or absent; with both conditions both are
\* there, with neither the list is empty, and nothing else is ever in it
C17_WarningsFollowConditions ==
    WarningsBuilt =>
        /\ (\E i \in 1..Len(probe.out) : probe.out[i] = LittleTextWarning) <=> LittleText
        /\ (\E i \in 1..Len(probe.out) : probe.out[i] = OcrWarning) <=> OcrNotEnabled
        /\ Len(probe.out) = (IF LittleText THEN 1 ELSE 0) + (IF OcrNotEnabled THEN 1 ELSE 0)

\* both conditions hold and both warnings are in the list
C17_Witness ==
    WarningsBuilt /\ LittleText /\ OcrNotEnabled /\ Len(probe.out) = 2

(***************************************************************************)
(* _build_metadata_with_fallback: the metadata of the final document from  *)
(* the embedded properties (extract_pdf_metadata) and the caller's options.*)
(* A text value is Str(..), a missing one None.                            *)
(***************************************************************************)
\* a dictionary entry, absent when v is <<>>
Entry(key, v) == IF v = <<>> THEN <<>> ELSE (key :> v[1])

\* what extract_pdf_metadata returns: the values that are None are removed, and {}
\* when the file cannot be read
EmbeddedMetadata ==
    {<<>>} \cup
    {Entry("title", t) @@ Entry("author", a) @@ Entry("subject", sb) @@ ("keywords" :> kw) :
        t \in {<<>>, <<Str("T0")>>}, a \in {<<>>, <<Str("A0")>>},
        sb \in {<<>>, <<Str("physics")>>}, kw \in {<<>>, <<Str("k0")>>}}

\* the options of the request that name metadata
MetadataOptions ==
    {Entry("language", l) @@ Entry("subject", sb) @@ Entry("document_type", dt)
        @@ Entry("title", t) :
        l \in {<<>>, <<Str("ar")>>}, sb \in {<<>>, <<Str("")>>, <<Str("math")>>},
        dt \in {<<>>, <<Str("exercises")>>}, t \in {<<>>, <<Str("T1")>>}}

\* bool(value) of a text or None
Truthy(v) == v # None /\ v # Str("")

\* a or b
Or(a, b) == IF Truthy(a) THEN a ELSE b

\* _build_metadata_with_fallback
build_metadata_with_fallback(pdf_metadata, chars, res, opts) ==
    LET language == Get(opts, "language", Str("en"))
        subject == Get(opts, "subject", Str("general"))
        document_type == Get(opts, "document_type", Str("mixed"))
        academic_level == Get(opts, "academic_level", None)
    IN  [title |-> Get(pdf_metadata, "title", None),
         author |-> Get(pdf_metadata, "author", None),
         subject |-> Or(subject, Get(pdf_metadata, "subject", None)),
         keywords |-> Get(pdf_metadata, "keywords", <<>>),
         language |-> language,
         totalPages |-> chars.total_pages,
         totalWordCount |-> res.totalWordCount,
         estimatedTotalReadingTime |-> res.totalWordCount \div 200,
         documentType |-> document_type,
         academicLevel |-> academic_level]

InitMeta ==
    /\ doc = <<>>
    /\ options = <<>>
    /\ InitPipeline
    /\ probe \in {[fn |-> "build_metadata", pdf_metadata |-> m, opts |-> o, called |-> FALSE,
                   out |-> None] : m \in EmbeddedMetadata, o \in MetadataOptions}

\* metadata = _build_metadata_with_fallback(...) in _build_document_structure
meta_build_metadata ==
    /\ probe.fn = "build_metadata"
    /\ ~probe.called
    /\ probe' = [probe EXCEPT !.called = TRUE,
                    !.out = build_metadata_with_fallback(probe.pdf_metadata,
                                FailureCharacteristics, NoResult, probe.opts)]
    /\ UNCHANGED <<cacheVars, doc, options, pc, selVars, acc, hybridVars, tables, mathVars,
                   ocrVars, orphans, result, document, error>>

NextMeta == meta_build_metadata

SpecMeta == InitMeta /\ [][NextMeta]_vars

\* a dictionary supplies a value for a key
Supplies(d, key) == key \in DOMAIN d /\ d[key] # None /\ d[key] # Str("")

\* caller-supplied option, else the embedded value, else the default
Precedence(key, embedded_key, default) ==
    IF Supplies(probe.opts, key) THEN probe.opts[key]
    ELSE IF Supplies(probe.pdf_metadata, embedded_key) THEN probe.pdf_metadata[embedded_key]
    ELSE default

\* C18 as the specification states it: language, subject, document type, title,
\* author and keywords each take the caller's option when one is given, otherwise
\* the value embedded in the document, otherwise the default ("en", "general",
\* "mixed", none, none, no keywords)
C18_MetadataPrecedence ==
    (probe.fn = "build_metadata" /\ probe.called) =>
        /\ probe.out.language = Precedence("language", "language", Str("en"))
        /\ probe.out.subject = Precedence("subject", "subject", Str("general"))
        /\ probe.out.documentType = Precedence("document_type", "document_type", Str("mixed"))
        /\ probe.out.title = Precedence("title", "title", None)
        /\ probe.out.author = Precedence("author", "author", None)
        /\ probe.out.keywords =
              (IF "keywords" \in DOMAIN probe.opts THEN probe.opts["keywords"]
               ELSE Get(probe.pdf_metadata, "keywords", <<>>))

\* C21: every fingerprint analyze_pdf returns has text_density, image_density and
\* table_density within [0,1] (0..100 hundredths) and total_pages >= 0
C21_DensitiesWithinUnit ==
    (probe.fn = "analyze_pdf" /\ probe.step = "returned") =>
        /\ probe.out.text_density \in 0..100
        /\ probe.out.image_density \in 0..100
        /\ probe.out.table_density \in 0..100
        /\ probe.out.total_pages >= 0

\* the tasks of the render path in use run group by group, five at a time
GroupsInPageOrder ==
    \A k \in 1..Len(tasks) :
        /\ k <= batch_start => tasks[k].state = "done"
        /\ k \in running(tasks) => k \in batch_of(tasks, batch_start)
        /\ k > batch_start + BatchSize => tasks[k].state = "pending"

\* C22 as the specification states it: the page-OCR tasks run in groups of 5 in
\* page order, no task of a later group runs before every task of the groups
\* before it has completed, by success or by failure, and after the failure of
\* one task no new page-OCR task runs while other tasks of the failed group are
\* still running
C22_GroupCompletesBeforeNext ==
    /\ GroupsInPageOrder
    /\ orphans > 0 => running(tasks) = {}

(***************************************************************************)
(* The OCR providers over the calls of one process: _get_vision_client and *)
(* _get_pytesseract are lru_cache(maxsize=1) functions without arguments.  *)
(***************************************************************************)
\* the _process_image_ocr calls of one process that are followed
MaxOcrCalls == 2

\* how the world is at one call: whether the client can be built / the module
\* imported now, and how a provider call would end
ProviderWorlds ==
    [vision_available : BOOLEAN, vision : CallOutcomes,
     pytesseract_available : BOOLEAN, tess : CallOutcomes]

\* a function under lru_cache: the value of the first call is returned by
\* every later call, None included
lru_cached(cached, value) == IF cached = "unset" THEN value ELSE cached

\* the try/except of _get_vision_client and of _get_pytesseract
provider_or_none(available) == IF available THEN "provider" ELSE "None"

InitProviders ==
    /\ doc = <<>>
    /\ options = <<>>
    /\ InitPipeline
    /\ probe = [fn |-> "process_image_ocr_calls", vision_client |-> "unset",
                pytesseract |-> "unset", log |-> <<>>]

\* one call of _process_image_ocr on an image that reads "a"
providers_process_image_ocr ==
    /\ probe.fn = "process_image_ocr_calls"
    /\ Len(probe.log) < MaxOcrCalls
    /\ \E w \in ProviderWorlds :
          LET vision_client == lru_cached(probe.vision_client,
                                          provider_or_none(w.vision_available))
              env1 == [vision_client |-> vision_client = "provider", vision |-> w.vision,
                       pytesseract |-> FALSE, tess |-> w.tess]
              \* _get_pytesseract() is reached unless the cloud text was returned
              reached == process_image_ocr(<<"a">>, env1).text = <<>>
              pytesseract == IF reached
                             THEN lru_cached(probe.pytesseract,
                                             provider_or_none(w.pytesseract_available))
                             ELSE probe.pytesseract
              env == [env1 EXCEPT !.pytesseract = reached /\ pytesseract = "provider"]
              r == process_image_ocr(<<"a">>, env)
          IN  probe' = [probe EXCEPT !.vision_client = vision_client,
                           !.pytesseract = pytesseract,
                           !.log = Append(@, [world |-> w, tesseract_reached |-> reached,
                                              calls |-> r.calls, text |-> r.text])]
    /\ UNCHANGED <<cacheVars, doc, options, pc, selVars, acc, hybridVars, tables, mathVars,
                   ocrVars, orphans, result, document, error>>

NextProviders == providers_process_image_ocr

SpecProviders == InitProviders /\ [][NextProviders]_vars

Used(entry, provider) == \E i \in 1..Len(entry.calls) : entry.calls[i] = provider

\* C23 as the specification states it: every _process_image_ocr call decides anew
\* which provider it uses: a call at which the cloud provider is available uses
\* it, and a call that gets no text from the cloud and at which the local engine
\* is available uses the engine, whatever earlier calls of the process found
C23_ProviderChosenAtEachCall ==
    probe.fn = "process_image_ocr_calls" =>
        \A i \in 1..Len(probe.log) :
            LET e == probe.log[i]
            IN  /\ e.world.vision_available => Used(e, "cloud_vision")
                /\ (e.tesseract_reached /\ e.world.pytesseract_available)
                      => Used(e, "tesseract")

(***************************************************************************)
(* Temporary space (utils/temp_manager.py) on the two paths that rasterize *)
(* pages: process_pdf_with_ocr and process_page_with_ocr.                  *)
(***************************************************************************)
\* largest free space of /tmp considered, in MB
MaxFreeMb == 101

\* ensure_tmp_space(100) in process_pdf_with_ocr
OcrRequiredMb == 100

\* MB held by the directories in _temp_dirs
TrackedMb == {0, 1, 50}

\* ensure_tmp_space: the free space after it, whether cleanup_all_temps ran, the result
ensure_tmp_space(free_mb, tracked_mb, required_mb) ==
    LET low == free_mb < required_mb
        after == IF low THEN free_mb + tracked_mb ELSE free_mb
    IN  [free_mb |-> after, cleaned |-> low, ok |-> ~(low /\ after < required_mb)]

InitTmp ==
    /\ doc = <<>>
    /\ options = <<>>
    /\ InitPipeline
    /\ probe \in {[fn |-> "rasterize", path |-> p, free_at_entry |-> f, free_mb |-> f,
                   tracked_mb |-> t, checked |-> FALSE, cleaned |-> FALSE,
                   step |-> "entered"] :
                    p \in {"process_pdf_with_ocr", "process_page_with_ocr"},
                    f \in 0..MaxFreeMb, t \in TrackedMb}

\* process_pdf_with_ocr up to the conversion of the pages
tmp_process_pdf_with_ocr ==
    /\ probe.fn = "rasterize"
    /\ probe.path = "process_pdf_with_ocr"
    /\ probe.step = "entered"
    /\ LET e == ensure_tmp_space(probe.free_mb, probe.tracked_mb, OcrRequiredMb)
       IN  probe' = [probe EXCEPT !.checked = TRUE, !.cleaned = e.cleaned,
                        !.free_mb = e.free_mb,
                        !.tracked_mb = IF e.cleaned THEN 0 ELSE @,
                        !.step = IF e.ok THEN "rasterizing" ELSE "raised"]
    /\ UNCHANGED <<cacheVars, doc, options, pc, selVars, acc, hybridVars, tables, mathVars,
                   ocrVars, orphans, result, document, error>>

\* process_page_with_ocr up to _extract_image
tmp_process_page_with_ocr ==
    /\ probe.fn = "rasterize"
    /\ probe.path = "process_page_with_ocr"
    /\ probe.step = "entered"
    /\ probe' = [probe EXCEPT !.step = "rasterizing"]
    /\ UNCHANGED <<cacheVars, doc, options, pc, selVars, acc, hybridVars, tables, mathVars,
                   ocrVars, orphans, result, document, error>>

\* convert_from_path / page.get_pixmap returns
tmp_rasterized ==
    /\ probe.fn = "rasterize"
    /\ probe.step = "rasterizing"
    /\ probe' = [probe EXCEPT !.step = "rasterized"]
    /\ UNCHANGED <<cacheVars, doc, options, pc, selVars, acc, hybridVars, tables, mathVars,
                   ocrVars, orphans, result, document, error>>

NextTmp == tmp_process_pdf_with_ocr \/ tmp_process_page_with_ocr \/ tmp_rasterized

SpecTmp == InitTmp /\ [][NextTmp]_vars

\* C24 as the specification states it: on both paths a page is rasterized only
\* after the free temporary space was checked, the tracked temp directories were
\* cleaned when it was below the requirement, and the space is sufficient; with
\* the space still insufficient the path raises and rasterizes nothing
C24_SpaceCheckedBeforeRasterizing ==
    probe.fn = "rasterize" =>
        /\ probe.step \in {"rasterizing", "rasterized"} =>
              /\ probe.checked
              /\ probe.free_at_entry < OcrRequiredMb => probe.cleaned
              /\ probe.free_mb >= OcrRequiredMb
        /\ probe.step = "raised" => probe.free_mb < OcrRequiredMb

(***************************************************************************)
(* The thread of every blocking call of a parse_pdf request: "event_loop"  *)
(* for a call made directly in a coroutine or in a function it calls,      *)
(* "worker" for a call handed to loop.run_in_executor(executor, ...).      *)
(***************************************************************************)
\* pages of the document of the request
MaxThreadPages == 2

OnLoop(call) == [call |-> call, thread |-> "event_loop"]
OnWorker(call) == [call |-> call, thread |-> "worker"]

\* _process_image_ocr: the clients are fetched in the coroutine, the provider
\* calls run in the executor
image_ocr_calls(env) ==
    LET r == process_image_ocr(<<"a">>, env)
        used(p) == \E i \in 1..Len(r.calls) : r.calls[i] = p
        cloud_text == env.vision_client /\ env.vision = "text"
    IN  <<OnLoop("_get_vision_client")>>
        \o (IF used("cloud_vision") THEN <<OnWorker("_vision_ocr")>> ELSE <<>>)
        \o (IF cloud_text THEN <<>> ELSE <<OnLoop("_get_pytesseract")>>)
        \o (IF used("tesseract") THEN <<OnWorker("_tesseract_ocr")>> ELSE <<>>)

\* one page of the second loop of extract_hybrid
hybrid_page_calls(ocr, env) ==
    (IF ocr THEN <<OnWorker("_extract_image")>> \o image_ocr_calls(env) ELSE <<>>)
    \o <<OnWorker("_extract_imgs"), OnWorker("_extract_eqs")>>

\* one page task of process_pdf_with_ocr
ocr_page_calls(env) == <<OnWorker("_img_to_bytes")>> \o image_ocr_calls(env)

RECURSIVE Repeat(_, _)
Repeat(q, n) == IF n = 0 THEN <<>> ELSE q \o Repeat(q, n - 1)

\* the blocking calls of the extractor of a strategy, in program order
extractor_calls(strat, n, ocr, env) ==
    CASE strat = "text_focus" -> <<OnWorker("_sync_extract")>>
      [] strat = "table_focus" ->
            <<OnWorker("extract_tables_from_pdf"), OnWorker("_sync_extract_text")>>
      [] strat = "math_focus" ->
            <<OnWorker("extract_math_from_pdf"), OnWorker("_sync_extract_text")>>
      [] strat = "hybrid" ->
            <<OnWorker("_sync_extract_text")>> \o Repeat(hybrid_page_calls(ocr, env), n)
      [] strat = "ocr_heavy" ->
            <<OnWorker("_convert_pdf")>> \o Repeat(ocr_page_calls(env), n)

\* parse_pdf: analyze_pdf, extract_with_strategy, _build_document_structure
parse_pdf_calls(strat, n, ocr, env) ==
    <<OnLoop("analyze_pdf")>> \o extractor_calls(strat, n, ocr, env)
    \o <<OnLoop("extract_pdf_metadata")>>

InitThreads ==
    /\ doc = <<>>
    /\ options = <<>>
    /\ InitPipeline
    /\ probe \in {[fn |-> "parse_pdf_calls", plan |-> parse_pdf_calls(st, n, ocr, env),
                   made |-> <<>>] :
                    st \in StrategyNames, n \in 1..MaxThreadPages, ocr \in BOOLEAN,
                    env \in OcrEnvs}

\* the request makes its next blocking call
threads_next_call ==
    /\ probe.fn = "parse_pdf_calls"
    /\ Len(probe.made) < Len(probe.plan)
    /\ probe' = [probe EXCEPT !.made = Append(@, probe.plan[Len(probe.made) + 1])]
    /\ UNCHANGED <<cacheVars, doc, options, pc, selVars, acc, hybridVars, tables, mathVars,
                   ocrVars, orphans, result, document, error>>

NextThreads == threads_next_call

SpecThreads == InitThreads /\ [][NextThreads]_vars

\* C25 as the specification states it: during a parse_pdf request every blocking
\* call (analysis, text, table and equation extraction, embedded-metadata
\* extraction, page rendering, OCR provider calls, provider client construction)
\* runs on a worker-pool thread and never on the event-loop thread
C25_BlockingCallsOnWorkers ==
    probe.fn = "parse_pdf_calls" =>
        \A i \in 1..Len(probe.made) : probe.made[i].thread = "worker"

(***************************************************************************)
(* math_focus: the two tasks and the merge.                                *)
(***************************************************************************)
MathMerged == extractor = "extract_math_focused" /\ pc \in {"build", "done"}

\* the pages of result whose elements.equations hold eq
PagesHolding(eq) ==
    {k \in 1..Len(result.pages) :
        \E j \in 1..Len(result.pages[k].equations) : result.pages[k].equations[j] = eq}

RECURSIVE SumEquationCounts(_)
SumEquationCounts(pgs) ==
    IF pgs = <<>> THEN 0 ELSE Len(Head(pgs).equations) + SumEquationCounts(Tail(pgs))

\* C26: in math_focus the text task yields the pages of the document whatever the
\* equation task does, the merge runs only after both tasks are done, and after
\* it every extracted equation is in elements.equations of exactly one page, the
\* one whose pageNumber is its page_number, so the per-page counts sum to
\* totalEquations (the number of extracted equations)
C26_MergeAfterBothTasks ==
    /\ (extractor = "extract_math_focused" /\ text_task = "done" /\ pc = "math_gather")
          => acc = math_focused_pages(doc, 0, Acc0)
    /\ MathMerged =>
          /\ eq_task = "done" /\ text_task = "done"
          /\ \A i \in 1..Len(equations) :
                /\ Cardinality(PagesHolding(equations[i])) = 1
                /\ \A k \in PagesHolding(equations[i]) :
                      result.pages[k].pageNumber = equations[i].page_number
          /\ SumEquationCounts(result.pages) = Len(equations)

\* a merge of equations of two different pages has been done
C26_Witness ==
    /\ MathMerged
    /\ \E i, j \in 1..Len(equations) : equations[i].page_number # equations[j].page_number

\* C27 as the specification states it: the document handle extract_hybrid opens
\* is closed on every exit path of the request, also when an OCR, image or
\* equation sub-extractor raises, and it is open as long as the loop over the
\* pages still hands pages to sub-extractor tasks
C27_HandleClosedOnEveryExit ==
    /\ pc \in {"build", "done", "failed"} => ~handle_open
    /\ pc = "hybrid_loop" => handle_open

(***************************************************************************)
(* analyze_pdf: the extrapolation of a sample count to the document.  For  *)
(* the documents of at most MaxExtrapolatedPages + 1 pages and the counts  *)
(* of sampled pages the double-precision product (count / sample_size) *   *)
(* total_pages has the integer part of the exact quotient.                 *)
(***************************************************************************)
MaxExtrapolatedPages == 40

\* Python's round() of num / den: to the nearest integer, a half to the even one
round_half_even(num, den) ==
    LET f == num \div den
        twice == 2 * (num - f * den)
    IN  IF twice > den \/ (twice = den /\ f % 2 = 1) THEN f + 1 ELSE f

InitExtrapolate ==
    /\ doc = <<>>
    /\ options = <<>>
    /\ InitPipeline
    /\ probe \in UNION {{[fn |-> "extrapolate", count |-> c, total_pages |-> t,
                           sample_size |-> Len(get_sample_pages(t)), called |-> FALSE,
                           out |-> 0] : c \in 0..Len(get_sample_pages(t))} :
                            t \in 1..MaxExtrapolatedPages}

\* text_pages = int((text_pages / sample_size) * total_pages)
extrapolate_text_pages ==
    /\ probe.fn = "extrapolate"
    /\ ~probe.called
    /\ probe' = [probe EXCEPT !.called = TRUE,
                    !.out = extrapolate(probe.count, probe.sample_size, probe.total_pages)]
    /\ UNCHANGED <<cacheVars, doc, options, pc, selVars, acc, hybridVars, tables, mathVars,
                   ocrVars, orphans, result, document, error>>

NextExtrapolate == extrapolate_text_pages

SpecExtrapolate == InitExtrapolate /\ [][NextExtrapolate]_vars

\* C28 as the specification states it: the estimate analyze_pdf makes of a sample
\* count is round(sample_count / sample_size * total_pages)
C28_EstimateIsRounded ==
    (probe.fn = "extrapolate" /\ probe.called) =>
        probe.out = round_half_even(probe.count * probe.total_pages, probe.sample_size)

(***************************************************************************)
(* The cache under the calls of utils/cache.py, from a cache that earlier  *)
(* requests have filled up to one entry below MAX_CACHE_SIZE.              *)
(***************************************************************************)
\* cache calls that are followed
MaxCacheOps == 3

\* DEFAULT_TTL, also the ttl of the parse route
DefaultTtl == 900

\* the key of the n-th file
KeyOf(n) == get_cache_key(n, <<>>)

\* the cache after set_in_cache for the files 1..n at time 0, n below MAX_CACHE_SIZE
warm_cache(n) == [k \in {KeyOf(i) : i \in 1..n} |-> [ref |-> k[1], expiry |-> 0 + CacheTtl]]

\* what the latest set_in_cache of each of the files 1..n stored
warm_latest(n) == [k \in {KeyOf(i) : i \in 1..n} |-> [ref |-> k[1], at |-> 0, ttl |-> CacheTtl]]

\* the cache as the earlier requests left it
InitCacheOps ==
    /\ doc = <<>>
    /\ options = <<>>
    /\ pc = "analyze"
    /\ characteristics = FailureCharacteristics
    /\ strategy = "none"
    /\ extractor = "none"
    /\ acc = Acc0
    /\ pages_data = <<>>
    /\ idx = 0
    /\ handle_open = FALSE
    /\ tables = <<>>
    /\ eq_task = "idle"
    /\ text_task = "idle"
    /\ equations = <<>>
    /\ ocr_path = "none"
    /\ tasks = <<>>
    /\ results = <<>>
    /\ batch_start = 0
    /\ orphans = 0
    /\ result = NoResult
    /\ document = NoDocument
    /\ error = "none"
    /\ heap = <<>>
    /\ calls = <<>>
    /\ clock = 0
    /\ cache = warm_cache(MaxCacheSize - 1)
    /\ probe = [fn |-> "cache_ops", ops |-> 0, next |-> MaxCacheSize,
                latest |-> warm_latest(MaxCacheSize - 1), last |-> [op |-> "none"]]

OpsPending == probe.fn = "cache_ops" /\ probe.ops < MaxCacheOps

\* set_in_cache(key, value, ttl) for the oldest file, the newest or a new one
ops_set_in_cache ==
    /\ OpsPending
    /\ \E n \in {1, probe.next - 1, probe.next}, ttl \in {DefaultTtl, CacheTtl} :
          LET key == KeyOf(n)
              ref == MaxCacheSize + probe.ops + 1
          IN  /\ cache' = set_in_cache(cache, key, ref, clock, ttl)
              /\ probe' = [probe EXCEPT !.ops = @ + 1,
                              !.next = IF n = probe.next THEN @ + 1 ELSE @,
                              !.latest = (key :> [ref |-> ref, at |-> clock, ttl |-> ttl]) @@ @,
                              !.last = [op |-> "set", key |-> key,
                                        removed |-> Cardinality((DOMAIN cache \ DOMAIN cache')
                                                                \ {key})]]
    /\ UNCHANGED <<clock, heap, calls, doc, options, pc, selVars, acc, hybridVars, tables,
                   mathVars, ocrVars, orphans, result, document, error>>

\* get_from_cache(key) for the oldest file, the newest or one never stored
ops_get_from_cache ==
    /\ OpsPending
    /\ \E n \in {1, probe.next - 1, probe.next} :
          LET key == KeyOf(n)
              hit == cache_hit(cache, key, clock)
          IN  /\ cache' = cache_after_get(cache, key, clock)
              /\ probe' = [probe EXCEPT !.ops = @ + 1,
                              !.last = [op |-> "get", key |-> key, at |-> clock, hit |-> hit,
                                        value |-> IF hit THEN cache[key].ref ELSE 0]]
    /\ UNCHANGED <<clock, heap, calls, doc, options, pc, selVars, acc, hybridVars, tables,
                   mathVars, ocrVars, orphans, result, document, error>>

\* clear_cache()
ops_clear_cache ==
    /\ OpsPending
    /\ cache' = <<>>
    /\ probe' = [probe EXCEPT !.ops = @ + 1, !.last = [op |-> "clear"]]
    /\ UNCHANGED <<clock, heap, calls, doc, options, pc, selVars, acc, hybridVars, tables,
                   mathVars, ocrVars, orphans, result, document, error>>

NextCacheOps == ops_set_in_cache \/ ops_get_from_cache \/ ops_clear_cache \/ cache_tick

SpecCacheOps == InitCacheOps /\ [][NextCacheOps]_vars

\* C29: after any sequence of set_in_cache, get_from_cache and clear_cache calls
\* the cache holds at most MAX_CACHE_SIZE entries, and a set_in_cache call
\* removes at most one entry other than the one it stores
C29_CacheSizeBounded ==
    probe.fn = "cache_ops" =>
        /\ Cardinality(DOMAIN cache) <= MaxCacheSize
        /\ probe.last.op = "set" => probe.last.removed <= 1

\* a set_in_cache on the full cache has evicted an entry
C29_Witness ==
    /\ probe.fn = "cache_ops"
    /\ probe.last.op = "set"
    /\ probe.last.removed = 1
    /\ Cardinality(DOMAIN cache) = MaxCacheSize

\* the expiry set by the latest set_in_cache for key
LatestExpiry(key) == probe.latest[key].at + probe.latest[key].ttl

\* C30: get_from_cache at time t returns the value of the latest set_in_cache for
\* the key, and only when t is before that set's time plus its ttl; otherwise it
\* returns None and no entry is left under the key
C30_NoExpiredValue ==
    (probe.fn = "cache_ops" /\ probe.last.op = "get") =>
        LET g == probe.last
        IN  /\ g.hit => /\ g.key \in DOMAIN probe.latest
                        /\ g.at < LatestExpiry(g.key)
                        /\ g.value = probe.latest[g.key].ref
            /\ ~g.hit => g.key \notin DOMAIN cache
            /\ (g.key \in DOMAIN probe.latest /\ g.at >= LatestExpiry(g.key)) => ~g.hit

\* a get after the expiry of a stored entry has missed
C30_Witness ==
    /\ probe.fn = "cache_ops"
    /\ probe.last.op = "get"
    /\ probe.last.key \in DOMAIN probe.latest
    /\ probe.last.at >= LatestExpiry(probe.last.key)
    /\ ~probe.last.hit

====
